---- MODULE Spec2Model ----
(***************************************************************************)
(* Model of the release ranking pipeline of UsenetStreamer                 *)
(* (src/src/utils/streamFilters.js): retention filter, quality filter,     *)
(* three-tier language grouping and the cascade sort.                      *)
(*                                                                         *)
(* Representation of JavaScript values:                                    *)
(*   - a string that the code upper/lower-cases or searches (title,        *)
(*     resolution, audioCodec, language names, preferredLanguage, quality) *)
(*     is a sequence of one-character strings; the empty sequence stands   *)
(*     for '' and for an absent (undefined) string alike, which the code   *)
(*     never tells apart (it only tests truthiness);                       *)
(*   - sortMethod and qualityFilter are only compared with ===             *)
(*     or used as object keys: they are TLA+ strings, "" for absent;       *)
(*   - a number that may be null/undefined (size, age) is an integer,      *)
(*     Null (-1) for null/undefined.                                       *)
(***************************************************************************)
EXTENDS Integers, Sequences, FiniteSets, TLC

\* ------------------------------------------------------------------ bounds
\* longest results array handed to one call
MaxResults == 2

\* null / undefined of a numeric field
Null == 0 - 1

\* ------------------------------------------------------------ JS strings
LowerLetters ==
  <<"a","b","c","d","e","f","g","h","i","j","k","l","m",
    "n","o","p","q","r","s","t","u","v","w","x","y","z">>

UpperLetters ==
  <<"A","B","C","D","E","F","G","H","I","J","K","L","M",
    "N","O","P","Q","R","S","T","U","V","W","X","Y","Z">>

\* the characters of the strings of this model
Alphabet ==
  {LowerLetters[i] : i \in 1..26} \cup {UpperLetters[i] : i \in 1..26}
    \cup {"0","1","2","3","4","5","6","7","8","9",".","-","+"," ","/"}

\* String.prototype.toUpperCase on one character
UpperChar ==
  [c \in Alphabet |->
    IF \E i \in 1..26 : LowerLetters[i] = c
      THEN UpperLetters[CHOOSE i \in 1..26 : LowerLetters[i] = c]
      ELSE c]

\* String.prototype.toLowerCase on one character
LowerChar ==
  [c \in Alphabet |->
    IF \E i \in 1..26 : UpperLetters[i] = c
      THEN LowerLetters[CHOOSE i \in 1..26 : UpperLetters[i] = c]
      ELSE c]

toUpperCase(s) == [i \in 1..Len(s) |-> UpperChar[s[i]]]

toLowerCase(s) == [i \in 1..Len(s) |-> LowerChar[s[i]]]

\* String.prototype.includes: sub occurs in s as a contiguous substring
includes(s, sub) ==
  \E k \in 0..(Len(s) - Len(sub)) :
    \A i \in 1..Len(sub) : s[k + i] = sub[i]

\* ------------------------------------------------------- string literals
s2160P == <<"2","1","6","0","P">>
s4K == <<"4","K">>
sUHD == <<"U","H","D">>
s1080P == <<"1","0","8","0","P">>
s720P == <<"7","2","0","P">>
s480P == <<"4","8","0","P">>
s1080p == <<"1","0","8","0","p">>
s720p == <<"7","2","0","p">>
s480p == <<"4","8","0","p">>
sTRUEHD == <<"T","R","U","E","H","D">>
sATMOS == <<"A","T","M","O","S">>
sDTSHD == <<"D","T","S","-","H","D">>
sMA == <<"M","A">>
sDTSHDMA == <<"D","T","S","-","H","D",".","M","A">>
sEAC3 == <<"E","A","C","3">>
sEhAC3 == <<"E","-","A","C","-","3">>
sDDplus == <<"D","D","+">>
sDDP == <<"D","D","P">>
sAC3 == <<"A","C","3">>
sDDsp == <<"D","D"," ">>
sDD == <<"D","D">>
sDTS == <<"D","T","S">>
sAAC == <<"A","A","C">>
senglish == <<"e","n","g","l","i","s","h">>
NoPreference == <<"N","o"," ","P","r","e","f","e","r","e","n","c","e">>

\* ---------------------------------------------------------- rank functions
\* getVideoQualityRank: ranks[resolution.toUpperCase()] || 0
getVideoQualityRank(resolution) ==
  IF resolution = <<>> THEN 0
  ELSE LET normalized == toUpperCase(resolution) IN
    CASE normalized = s2160P -> 4
      [] normalized = s4K -> 4
      [] normalized = sUHD -> 4
      [] normalized = s1080P -> 3
      [] normalized = s720P -> 2
      [] normalized = s480P -> 1
      [] OTHER -> 0

\* getAudioQualityRank: ordered substring rules on the uppercased codec
getAudioQualityRank(audioCodec) ==
  IF audioCodec = <<>> THEN 0
  ELSE LET codec == toUpperCase(audioCodec) IN
    IF includes(codec, sTRUEHD) /\ includes(codec, sATMOS) THEN 6
    ELSE IF includes(codec, sDTSHD) /\ includes(codec, sMA) THEN 6
    ELSE IF includes(codec, sDTSHDMA) THEN 6
    ELSE IF includes(codec, sDTSHD) THEN 5
    ELSE IF \/ includes(codec, sEAC3) \/ includes(codec, sEhAC3)
            \/ includes(codec, sDDplus) \/ includes(codec, sDDP) THEN 4
    ELSE IF includes(codec, sAC3) \/ includes(codec, sDDsp) \/ codec = sDD THEN 3
    ELSE IF includes(codec, sDTS) /\ ~includes(codec, sDTSHD) THEN 3
    ELSE IF includes(codec, sAAC) THEN 2
    ELSE IF includes(codec, sTRUEHD) THEN 6
    ELSE 1

\* ---------------------------------------------------------- quality filter
\* extractQuality: null is the empty string here (both are falsy and
\* matchesQualityFilter only tests !quality)
extractQuality(parsed) ==
  IF parsed.resolution = <<>> THEN <<>>
  ELSE LET res == toUpperCase(parsed.resolution) IN
    IF res = s2160P \/ res = sUHD THEN s4K
    ELSE IF res = s1080P THEN s1080p
    ELSE IF res = s720P THEN s720p
    ELSE IF res = s480P THEN s480p
    ELSE parsed.resolution

\* the own keys of filterMap
FilterMapKeys ==
  {"4K/2160p", "1080p", "720p", "480p", "4K + 1080p", "1080p + 720p", "720p + 480p"}

\* mutant of filterMap: the '1080p' filter also lets 720p through
filterMap_1080pWide ==
  [f \in FilterMapKeys |->
    CASE f = "4K/2160p" -> {s4K}
      [] f = "1080p" -> {s1080p, s720p}
      [] f = "720p" -> {s720p}
      [] f = "480p" -> {s480p}
      [] f = "4K + 1080p" -> {s4K, s1080p}
      [] f = "1080p + 720p" -> {s1080p, s720p}
      [] f = "720p + 480p" -> {s720p, s480p}]

filterMap ==
  [f \in FilterMapKeys |->
    CASE f = "4K/2160p" -> {s4K}
      [] f = "1080p" -> {s1080p}
      [] f = "720p" -> {s720p}
      [] f = "480p" -> {s480p}
      [] f = "4K + 1080p" -> {s4K, s1080p}
      [] f = "1080p + 720p" -> {s1080p, s720p}
      [] f = "720p + 480p" -> {s720p, s480p}]

\* keys every object literal inherits from Object.prototype: filterMap[key]
\* is then a function or object without an includes method
ObjectPrototypeKeys ==
  {"constructor", "toString", "valueOf", "hasOwnProperty", "__proto__"}

\* matchesQualityFilter: "true", "false", or "throw" (TypeError:
\* allowedQualities.includes is not a function)
matchesQualityFilter(quality, filter) ==
  IF filter = "" \/ filter = "All" THEN "true"
  ELSE IF quality = <<>> THEN "false"
  ELSE IF filter \in FilterMapKeys
    THEN (IF quality \in filterMap[filter] THEN "true" ELSE "false")
  ELSE IF filter \in ObjectPrototypeKeys THEN "throw"
  ELSE "false"

\* ------------------------------------------------------- language tiers
\* mutant of languageTags: FRENCH is entered before GERMAN
languageTags_FrenchFirst ==
  << <<<<"F","R","E","N","C","H">>, <<"f","r","e","n","c","h">>>>,
     <<<<"G","E","R","M","A","N">>, <<"g","e","r","m","a","n">>>>,
     <<<<"S","P","A","N","I","S","H">>, <<"s","p","a","n","i","s","h">>>>,
     <<<<"I","T","A","L","I","A","N">>, <<"i","t","a","l","i","a","n">>>>,
     <<<<"P","O","R","T","U","G","U","E","S","E">>,
       <<"p","o","r","t","u","g","u","e","s","e">>>>,
     <<<<"R","U","S","S","I","A","N">>, <<"r","u","s","s","i","a","n">>>>,
     <<<<"J","A","P","A","N","E","S","E">>, <<"j","a","p","a","n","e","s","e">>>>,
     <<<<"K","O","R","E","A","N">>, <<"k","o","r","e","a","n">>>>,
     <<<<"C","H","I","N","E","S","E">>, <<"c","h","i","n","e","s","e">>>>,
     <<<<"A","R","A","B","I","C">>, <<"a","r","a","b","i","c">>>>,
     <<<<"H","I","N","D","I">>, <<"h","i","n","d","i">>>>,
     <<<<"D","U","T","C","H">>, <<"d","u","t","c","h">>>>,
     <<<<"P","O","L","I","S","H">>, <<"p","o","l","i","s","h">>>>,
     <<<<"T","U","R","K","I","S","H">>, <<"t","u","r","k","i","s","h">>>> >>

\* the languageTags dictionary in its insertion order: <<tag, lang>>
languageTags ==
  << <<<<"G","E","R","M","A","N">>, <<"g","e","r","m","a","n">>>>,
     <<<<"F","R","E","N","C","H">>, <<"f","r","e","n","c","h">>>>,
     <<<<"S","P","A","N","I","S","H">>, <<"s","p","a","n","i","s","h">>>>,
     <<<<"I","T","A","L","I","A","N">>, <<"i","t","a","l","i","a","n">>>>,
     <<<<"P","O","R","T","U","G","U","E","S","E">>,
       <<"p","o","r","t","u","g","u","e","s","e">>>>,
     <<<<"R","U","S","S","I","A","N">>, <<"r","u","s","s","i","a","n">>>>,
     <<<<"J","A","P","A","N","E","S","E">>, <<"j","a","p","a","n","e","s","e">>>>,
     <<<<"K","O","R","E","A","N">>, <<"k","o","r","e","a","n">>>>,
     <<<<"C","H","I","N","E","S","E">>, <<"c","h","i","n","e","s","e">>>>,
     <<<<"A","R","A","B","I","C">>, <<"a","r","a","b","i","c">>>>,
     <<<<"H","I","N","D","I">>, <<"h","i","n","d","i">>>>,
     <<<<"D","U","T","C","H">>, <<"d","u","t","c","h">>>>,
     <<<<"P","O","L","I","S","H">>, <<"p","o","l","i","s","h">>>>,
     <<<<"T","U","R","K","I","S","H">>, <<"t","u","r","k","i","s","h">>>> >>

\* mutant of someLanguage: the language is compared as written
someLanguage_CaseSensitive(languages, wanted) ==
  \E i \in 1..Len(languages) : languages[i] = wanted

\* languages.some(lang => lang.toLowerCase() === wanted)
someLanguage(languages, wanted) ==
  \E i \in 1..Len(languages) : toLowerCase(languages[i]) = wanted

\* mutant of detectLanguageGroup: a MULTi release without a listed preferred
\* or English language goes on to the title scan
detectLanguageGroup_MultiScansTitle(parsed, preferredLanguage, title) ==
  IF preferredLanguage = <<>> \/ preferredLanguage = NoPreference THEN "english"
  ELSE LET languages == parsed.languages
           pref == toLowerCase(preferredLanguage) IN
    IF someLanguage(languages, pref) THEN "preferred"
    ELSE IF someLanguage(languages, senglish) THEN "english"
    ELSE IF Len(languages) = 0 THEN
      LET titleUpper == toUpperCase(title)
          hits == {i \in 1..Len(languageTags) : includes(titleUpper, languageTags[i][1])} IN
      IF hits = {} THEN "english"
      ELSE LET first == CHOOSE i \in hits : \A j \in hits : i <= j IN
        IF toLowerCase(languageTags[first][2]) = pref THEN "preferred" ELSE "other"
    ELSE "other"

\* detectLanguageGroup: 'preferred', 'english' or 'other'
detectLanguageGroup(parsed, preferredLanguage, title) ==
  IF preferredLanguage = <<>> \/ preferredLanguage = NoPreference THEN "english"
  ELSE LET languages == parsed.languages
           pref == toLowerCase(preferredLanguage) IN
    IF parsed.multi = TRUE THEN
      (IF someLanguage(languages, pref) THEN "preferred"
       ELSE IF someLanguage(languages, senglish) THEN "english"
       ELSE "other")
    ELSE IF someLanguage(languages, pref) THEN "preferred"
    ELSE IF someLanguage(languages, senglish) THEN "english"
    ELSE IF Len(languages) = 0 THEN
      LET titleUpper == toUpperCase(title)
          hits == {i \in 1..Len(languageTags) : includes(titleUpper, languageTags[i][1])} IN
      IF hits = {} THEN "english"
      ELSE LET first == CHOOSE i \in hits : \A j \in hits : i <= j IN
        IF toLowerCase(languageTags[first][2]) = pref THEN "preferred" ELSE "other"
    ELSE "other"

\* ------------------------------------------------------------------ sorter
\* mutant of OrZero: an unknown number counts as a large one
OrZero_UnknownIsLarge(x) == IF x = Null THEN 100 ELSE x

\* x || 0 on a number that may be null/undefined
OrZero(x) == IF x = Null THEN 0 ELSE x

\* mutant of compare: the audio tiebreaker prefers the lower rank
compare_AudioAscending(a, b, sortMethod) ==
  LET videoRankA == getVideoQualityRank(a.parsed.resolution)
      videoRankB == getVideoQualityRank(b.parsed.resolution)
      primaryComparison ==
        CASE sortMethod = "Quality First" -> videoRankB - videoRankA
          [] sortMethod = "Size First" -> OrZero(b.result.size) - OrZero(a.result.size)
          [] sortMethod = "Date First" -> OrZero(a.result.age) - OrZero(b.result.age)
          [] OTHER -> videoRankB - videoRankA
      videoComparison == videoRankB - videoRankA
      audioComparison ==
        getAudioQualityRank(a.parsed.audioCodec) - getAudioQualityRank(b.parsed.audioCodec)
  IN
    IF primaryComparison # 0 THEN primaryComparison
    ELSE IF sortMethod # "Quality First" /\ videoComparison # 0 THEN videoComparison
    ELSE IF audioComparison # 0 THEN audioComparison
    ELSE OrZero(b.result.size) - OrZero(a.result.size)

\* mutant of compare: the default branch ranks the lower video quality first
compare_DefaultAscending(a, b, sortMethod) ==
  LET videoRankA == getVideoQualityRank(a.parsed.resolution)
      videoRankB == getVideoQualityRank(b.parsed.resolution)
      primaryComparison ==
        CASE sortMethod = "Quality First" -> videoRankB - videoRankA
          [] sortMethod = "Size First" -> OrZero(b.result.size) - OrZero(a.result.size)
          [] sortMethod = "Date First" -> OrZero(a.result.age) - OrZero(b.result.age)
          [] OTHER -> videoRankA - videoRankB
      videoComparison == videoRankB - videoRankA
      audioComparison ==
        getAudioQualityRank(b.parsed.audioCodec) - getAudioQualityRank(a.parsed.audioCodec)
  IN
    IF primaryComparison # 0 THEN primaryComparison
    ELSE IF sortMethod # "Quality First" /\ videoComparison # 0 THEN videoComparison
    ELSE IF audioComparison # 0 THEN audioComparison
    ELSE OrZero(b.result.size) - OrZero(a.result.size)

\* mutant of compare: tiebreaker 1 (video quality) is left out
compare_NoVideoTiebreak(a, b, sortMethod) ==
  LET videoRankA == getVideoQualityRank(a.parsed.resolution)
      videoRankB == getVideoQualityRank(b.parsed.resolution)
      primaryComparison ==
        CASE sortMethod = "Quality First" -> videoRankB - videoRankA
          [] sortMethod = "Size First" -> OrZero(b.result.size) - OrZero(a.result.size)
          [] sortMethod = "Date First" -> OrZero(a.result.age) - OrZero(b.result.age)
          [] OTHER -> videoRankB - videoRankA
      audioComparison ==
        getAudioQualityRank(b.parsed.audioCodec) - getAudioQualityRank(a.parsed.audioCodec)
  IN
    IF primaryComparison # 0 THEN primaryComparison
    ELSE IF audioComparison # 0 THEN audioComparison
    ELSE OrZero(b.result.size) - OrZero(a.result.size)

\* mutant of compare: items that tie on every key are reported as b first
compare_TieIsPositive(a, b, sortMethod) ==
  LET videoRankA == getVideoQualityRank(a.parsed.resolution)
      videoRankB == getVideoQualityRank(b.parsed.resolution)
      primaryComparison ==
        CASE sortMethod = "Quality First" -> videoRankB - videoRankA
          [] sortMethod = "Size First" -> OrZero(b.result.size) - OrZero(a.result.size)
          [] sortMethod = "Date First" -> OrZero(a.result.age) - OrZero(b.result.age)
          [] OTHER -> videoRankB - videoRankA
      videoComparison == videoRankB - videoRankA
      audioComparison ==
        getAudioQualityRank(b.parsed.audioCodec) - getAudioQualityRank(a.parsed.audioCodec)
      sizeComparison == OrZero(b.result.size) - OrZero(a.result.size)
  IN
    IF primaryComparison # 0 THEN primaryComparison
    ELSE IF sortMethod # "Quality First" /\ videoComparison # 0 THEN videoComparison
    ELSE IF audioComparison # 0 THEN audioComparison
    ELSE IF sizeComparison # 0 THEN sizeComparison
    ELSE 1

\* the comparator handed to sorted.sort: negative puts a first
compare(a, b, sortMethod) ==
  LET videoRankA == getVideoQualityRank(a.parsed.resolution)
      videoRankB == getVideoQualityRank(b.parsed.resolution)
      primaryComparison ==
        CASE sortMethod = "Quality First" -> videoRankB - videoRankA
          [] sortMethod = "Size First" -> OrZero(b.result.size) - OrZero(a.result.size)
          [] sortMethod = "Date First" -> OrZero(a.result.age) - OrZero(b.result.age)
          [] OTHER -> videoRankB - videoRankA
      videoComparison == videoRankB - videoRankA
      audioComparison ==
        getAudioQualityRank(b.parsed.audioCodec) - getAudioQualityRank(a.parsed.audioCodec)
  IN
    IF primaryComparison # 0 THEN primaryComparison
    ELSE IF sortMethod # "Quality First" /\ videoComparison # 0 THEN videoComparison
    ELSE IF audioComparison # 0 THEN audioComparison
    ELSE OrZero(b.result.size) - OrZero(a.result.size)

\* mutant of InsertSorted: x goes in front of the elements it ties with
InsertSorted_BeforeTies(sorted, x, sortMethod) ==
  LET before == {i \in 1..Len(sorted) : compare(x, sorted[i], sortMethod) <= 0}
      pos == IF before = {} THEN Len(sorted) + 1
             ELSE CHOOSE i \in before : \A j \in before : i <= j
  IN SubSeq(sorted, 1, pos - 1) \o <<x>> \o SubSeq(sorted, pos, Len(sorted))

\* place x in an already sorted sequence, behind every element it does not
\* strictly precede
InsertSorted(sorted, x, sortMethod) ==
  LET before == {i \in 1..Len(sorted) : compare(x, sorted[i], sortMethod) < 0}
      pos == IF before = {} THEN Len(sorted) + 1
             ELSE CHOOSE i \in before : \A j \in before : i <= j
  IN SubSeq(sorted, 1, pos - 1) \o <<x>> \o SubSeq(sorted, pos, Len(sorted))

\* Array.prototype.sort, which is stable: elements the comparator ranks equal
\* keep their order
RECURSIVE ArraySort(_, _)
ArraySort(items, sortMethod) ==
  IF Len(items) = 0 THEN <<>>
  ELSE InsertSorted(ArraySort(SubSeq(items, 1, Len(items) - 1), sortMethod),
                    items[Len(items)], sortMethod)

\* mutant of itemsAfterSortWithinGroup: sort is applied to items itself
itemsAfterSortWithinGroup_InPlace(items, sortMethod) == ArraySort(items, sortMethod)

\* the items array after sortWithinGroup: the sort acts on the copy [...items]
itemsAfterSortWithinGroup(items, sortMethod) == items

\* sortWithinGroup: a sorted copy of items
sortWithinGroup(items, sortMethod) == ArraySort(items, sortMethod)

\* ------------------------------------------------------------------ parser
\* the descriptor {} that parseRelease returns for an empty title or a fault
EmptyDescriptor ==
  [resolution |-> <<>>, audioCodec |-> <<>>, languages |-> <<>>, multi |-> FALSE]

\* release titles the indexers return
tGermanLang == <<"a",".","G","e","r","m","a","n">>
tGermanTag == <<"b",".","G","E","R","M","A","N">>
tEnglishA == <<"c",".","e","n","g">>
tEnglishB == <<"d",".","e","n","g">>
tMulti == <<"e",".","M","U","L","T","i">>
tFrenchFault == <<"f",".","F","r","e","n","c","h">>
tEmpty == <<>>

Titles ==
  {tGermanLang, tGermanTag, tEnglishA, tEnglishB, tMulti, tFrenchFault, tEmpty}

\* filenameParse of @ctrl/video-filename-parser, an external collaborator:
\* what it extracts from each title; threw is TRUE when it faults on it
filenameParse(title) ==
  CASE title = tGermanLang ->
         [threw |-> FALSE, value |->
           [resolution |-> s1080P,
            audioCodec |-> <<"D","T","S","-","H","D"," ","M","A">>,
            languages |-> << <<"G","e","r","m","a","n">> >>, multi |-> FALSE]]
    [] title = tGermanTag ->
         [threw |-> FALSE, value |->
           [resolution |-> s720P, audioCodec |-> sAC3,
            languages |-> <<>>, multi |-> FALSE]]
    [] title \in {tEnglishA, tEnglishB} ->
         [threw |-> FALSE, value |->
           [resolution |-> s1080P, audioCodec |-> sAC3,
            languages |-> << <<"E","n","g","l","i","s","h">> >>, multi |-> FALSE]]
    [] title = tMulti ->
         [threw |-> FALSE, value |->
           [resolution |-> s2160P, audioCodec |-> <<>>,
            languages |-> <<>>, multi |-> TRUE]]
    [] OTHER -> [threw |-> TRUE, value |-> EmptyDescriptor]

\* mutant of parseRelease: after a fault the descriptor of another release
\* is handed out instead of {}
parseRelease_StaleOnFault(title) ==
  IF title = <<>> THEN EmptyDescriptor
  ELSE IF filenameParse(title).threw THEN filenameParse(tEnglishA).value
  ELSE filenameParse(title).value

\* parseRelease: {} for an empty title and for a parser fault
parseRelease(title) ==
  IF title = <<>> THEN EmptyDescriptor
  ELSE IF filenameParse(title).threw THEN EmptyDescriptor
  ELSE filenameParse(title).value

\* the results an indexer search returns: title, size, age in days
RawResults ==
  { [title |-> tGermanLang, size |-> 1, age |-> 9],
    [title |-> tGermanTag, size |-> 1, age |-> Null],
    [title |-> tEnglishA, size |-> 1, age |-> Null],
    [title |-> tEnglishB, size |-> 1, age |-> Null],
    [title |-> tMulti, size |-> Null, age |-> 8],
    [title |-> tFrenchFault, size |-> 2, age |-> 1],
    [title |-> tEmpty, size |-> 0, age |-> 0] }

\* the results arrays of a call
ResultLists == UNION {[1..n -> RawResults] : n \in 0..MaxResults}

\* ---------------------------------------------------------- configuration
\* AGE_THRESHOLDS of config/environment: absent, or the retention thresholds
NoThresholds ==
  [configured |-> FALSE, freshDays |-> 0, agingDays |-> 0, warningDays |-> 0,
   filterDays |-> 0]

ThresholdConfigs ==
  { NoThresholds,
    [configured |-> TRUE, freshDays |-> 2, agingDays |-> 4, warningDays |-> 6,
     filterDays |-> 8] }

SortMethods == {"Quality First", "Size First", "Date First", "Newest First", ""}

PreferredLanguages == {<<>>, NoPreference, <<"g","e","r","m","a","n">>}

QualityFilters == FilterMapKeys \cup {"", "All", "HD only", "constructor"}

\* mutant of shouldFilterByAge: the warning zone is filtered as well
shouldFilterByAge_FromWarning(age, thresholds) ==
  IF ~thresholds.configured \/ age = Null THEN FALSE
  ELSE age >= thresholds.warningDays

\* -------------------------------------------------------------- retention
\* mutant of shouldFilterByAge: an item exactly filterDays old is filtered too
shouldFilterByAge_AtThreshold(age, thresholds) ==
  IF ~thresholds.configured \/ age = Null THEN FALSE
  ELSE age >= thresholds.filterDays

\* shouldFilterByAge
shouldFilterByAge(age, thresholds) ==
  IF ~thresholds.configured \/ age = Null THEN FALSE
  ELSE age > thresholds.filterDays

\* ---------------------------------------------------------------- pipeline
\* Array.prototype.filter with a predicate on the element
RECURSIVE SelectSeqBy(_, _)
SelectSeqBy(seq, keep) ==
  IF Len(seq) = 0 THEN <<>>
  ELSE SelectSeqBy(SubSeq(seq, 1, Len(seq) - 1), keep)
       \o (IF keep[Len(seq)] THEN <<seq[Len(seq)]>> ELSE <<>>)

\* results.map(result => ({ result, parsed: parseRelease(result.title) }))
parsedItemsOf(results) ==
  [i \in 1..Len(results) |-> [result |-> results[i], parsed |-> parseRelease(results[i].title)]]

\* the retention stage
ageFiltered(parsedItems, thresholds) ==
  IF thresholds.configured
    THEN SelectSeqBy(parsedItems,
           [i \in 1..Len(parsedItems) |->
              ~shouldFilterByAge(parsedItems[i].result.age, thresholds)])
    ELSE parsedItems

\* the verdict of matchesQualityFilter on every item of the quality stage
qualityVerdicts(items, qualityFilter) ==
  [i \in 1..Len(items) |-> matchesQualityFilter(extractQuality(items[i].parsed), qualityFilter)]

\* the quality stage, when no verdict throws
qualityFiltered(items, qualityFilter) ==
  IF qualityFilter # "" /\ qualityFilter # "All"
    THEN SelectSeqBy(items,
           [i \in 1..Len(items) |-> qualityVerdicts(items, qualityFilter)[i] = "true"])
    ELSE items

\* sorted.map(item => ({ ...item.result, parsed: item.parsed }))
flatten(items) ==
  [i \in 1..Len(items) |->
     [title |-> items[i].result.title, size |-> items[i].result.size,
      age |-> items[i].result.age, parsed |-> items[i].parsed]]

\* mutant of languageGroup: the items of the english group are put into the
\* other group as well
languageGroup_FallbackTwice(items, preferredLanguage, group) ==
  SelectSeqBy(items,
    [i \in 1..Len(items) |->
       LET langGroup == detectLanguageGroup(items[i].parsed, preferredLanguage,
                                            items[i].result.title)
       IN  langGroup = group \/ (group = "other" /\ langGroup = "english")])

\* the items of one language group, in the order of filteredItems
languageGroup(items, preferredLanguage, group) ==
  SelectSeqBy(items,
    [i \in 1..Len(items) |->
       detectLanguageGroup(items[i].parsed, preferredLanguage, items[i].result.title) = group])

\* mutant of allSortedOf: the other group is left out of the result
allSortedOf_WithoutOther(sortedPreferred, sortedEnglish, sortedOther) ==
  sortedPreferred \o sortedEnglish

\* mutant of allSortedOf: the english group is put in front
allSortedOf_EnglishFirst(sortedPreferred, sortedEnglish, sortedOther) ==
  sortedEnglish \o sortedPreferred \o sortedOther

\* the three arrays concatenated: preferred first, then english, then other
allSortedOf(sortedPreferred, sortedEnglish, sortedOther) ==
  sortedPreferred \o sortedEnglish \o sortedOther

NullGroupInfo == [isNull |-> TRUE]

\* mutant of noPreferredLanguage: the 'No Preference' sentinel is not recognized
noPreferredLanguage_NoSentinel(preferredLanguage) == preferredLanguage = <<>>

\* !preferredLanguage || preferredLanguage === 'No Preference'
noPreferredLanguage(preferredLanguage) ==
  preferredLanguage = <<>> \/ preferredLanguage = NoPreference

\* filterAndSortStreams: threw is TRUE when the call ends in an exception
filterAndSortStreams(results, sortMethod, preferredLanguage, qualityFilter, thresholds) ==
  LET parsedItems == parsedItemsOf(results)
      afterAge == ageFiltered(parsedItems, thresholds)
      throws == /\ qualityFilter # "" /\ qualityFilter # "All"
                /\ \E i \in 1..Len(afterAge) :
                     qualityVerdicts(afterAge, qualityFilter)[i] = "throw"
      filteredItems == qualityFiltered(afterAge, qualityFilter)
  IN
    IF throws THEN [threw |-> TRUE, sortedResults |-> <<>>, groupInfo |-> NullGroupInfo]
    ELSE IF noPreferredLanguage(preferredLanguage) THEN
      [threw |-> FALSE,
       sortedResults |-> flatten(sortWithinGroup(filteredItems, sortMethod)),
       groupInfo |-> NullGroupInfo]
    ELSE
      LET sortedPreferred ==
            sortWithinGroup(languageGroup(filteredItems, preferredLanguage, "preferred"), sortMethod)
          sortedEnglish ==
            sortWithinGroup(languageGroup(filteredItems, preferredLanguage, "english"), sortMethod)
          sortedOther ==
            sortWithinGroup(languageGroup(filteredItems, preferredLanguage, "other"), sortMethod)
          group1End == Len(sortedPreferred)
          group2End == group1End + Len(sortedEnglish)
      IN
        [threw |-> FALSE,
         sortedResults |-> flatten(allSortedOf(sortedPreferred, sortedEnglish, sortedOther)),
         groupInfo |->
           [isNull |-> FALSE,
            preferredLanguage |-> preferredLanguage,
            preferredCount |-> Len(sortedPreferred),
            englishCount |-> Len(sortedEnglish),
            otherCount |-> Len(sortedOther),
            group1End |-> group1End,
            group2End |-> group2End]]

\* the results array after filterAndSortStreams: map, filter and the spread
\* in the final map build new arrays and objects, nothing is written to
\* results or to its elements
resultsAfterFilterAndSortStreams(results, sortMethod, preferredLanguage, qualityFilter, thresholds) ==
  results

\* ------------------------------------------------------------ state machine
VARIABLES
  AGE_THRESHOLDS,     \* the retention configuration read at module load
  pc,                 \* "idle", or the name of the function that has returned
  results,            \* arguments of the last call
  sortMethod,
  preferredLanguage,
  qualityFilter,
  ret,                \* what the last call returned
  inputAfter,         \* the array that was passed in, as the call has left it
  arg,                \* the argument of the last call of a function of one value
  INDEXER_MANAGER_STRICT_ID_MATCH,  \* read at module load by the search handler
  planExecutions,     \* searchProwlarr: one promise per search plan, in plan order
  settled,            \* searchProwlarr: the plans in the order their requests ended
  req,                \* handleNzbdavStream: the request
  res                 \* handleNzbdavStream: the response, as written so far

vars ==
  <<AGE_THRESHOLDS, pc, results, sortMethod, preferredLanguage, qualityFilter, ret,
    inputAfter, arg, INDEXER_MANAGER_STRICT_ID_MATCH, planExecutions, settled, req, res>>

\* the state of the handlers of nzbStream.js
handlerVars == <<INDEXER_MANAGER_STRICT_ID_MATCH, planExecutions, settled, req, res>>

\* no request is being handled
NoRequest == [method |-> <<>>, downloadUrl |-> ""]

\* a response nothing has been written to
\* lateWrite records a status or body written once the headers were out
FreshResponse ==
  [headersSent |-> FALSE, statusCode |-> 0, body |-> "", ended |-> FALSE, headers |-> {},
   lateWrite |-> FALSE]

\* the handlers of nzbStream.js are idle
HandlersIdle ==
  /\ planExecutions = <<>>
  /\ settled = <<>>
  /\ req = NoRequest
  /\ res = FreshResponse

\* arg when the last call was none of a function of one value
NoArg == <<>>

NoReturn == [threw |-> FALSE, sortedResults |-> <<>>, groupInfo |-> NullGroupInfo]

Init ==
  /\ AGE_THRESHOLDS \in ThresholdConfigs
  /\ pc = "idle"
  /\ results = <<>>
  /\ sortMethod = ""
  /\ preferredLanguage = <<>>
  /\ qualityFilter = ""
  /\ ret = NoReturn
  /\ inputAfter = <<>>
  /\ arg = NoArg
  /\ INDEXER_MANAGER_STRICT_ID_MATCH = FALSE
  /\ HandlersIdle

\* one request: the handler calls filterAndSortStreams on a search result
FilterAndSortStreams ==
  /\ pc = "idle"
  /\ \E r \in ResultLists, sm \in SortMethods, pl \in PreferredLanguages,
        qf \in QualityFilters :
       /\ results' = r
       /\ sortMethod' = sm
       /\ preferredLanguage' = pl
       /\ qualityFilter' = qf
       /\ ret' = filterAndSortStreams(r, sm, pl, qf, AGE_THRESHOLDS)
       /\ inputAfter' = resultsAfterFilterAndSortStreams(r, sm, pl, qf, AGE_THRESHOLDS)
  /\ pc' = "filterAndSortStreams"
  /\ UNCHANGED handlerVars
  /\ UNCHANGED <<AGE_THRESHOLDS, arg>>

\* a direct call of sortWithinGroup on parsed items
SortWithinGroup ==
  /\ pc = "idle"
  /\ \E r \in ResultLists, sm \in SortMethods :
       /\ results' = r
       /\ sortMethod' = sm
       /\ ret' = [threw |-> FALSE,
                  sortedResults |-> flatten(sortWithinGroup(parsedItemsOf(r), sm)),
                  groupInfo |-> NullGroupInfo]
       /\ inputAfter' = itemsAfterSortWithinGroup(parsedItemsOf(r), sm)
  /\ preferredLanguage' = <<>>
  /\ qualityFilter' = ""
  /\ pc' = "sortWithinGroup"
  /\ UNCHANGED handlerVars
  /\ UNCHANGED <<AGE_THRESHOLDS, arg>>

\* the request is answered; the next one starts from scratch
NextRequest ==
  /\ pc # "idle"
  /\ pc' = "idle"
  /\ results' = <<>>
  /\ sortMethod' = ""
  /\ preferredLanguage' = <<>>
  /\ qualityFilter' = ""
  /\ ret' = NoReturn
  /\ inputAfter' = <<>>
  /\ arg' = NoArg
  /\ planExecutions' = <<>>
  /\ settled' = <<>>
  /\ req' = NoRequest
  /\ res' = FreshResponse
  /\ UNCHANGED <<AGE_THRESHOLDS, INDEXER_MANAGER_STRICT_ID_MATCH>>

Next == FilterAndSortStreams \/ SortWithinGroup \/ NextRequest

Spec == Init /\ [][Next]_vars

\* ------------------------------------------------------------- properties
\* filterAndSortStreams has returned normally
Returned == pc = "filterAndSortStreams" /\ ~ret.threw

\* the raw result an element of sortedResults came from
asResult(o) == [title |-> o.title, size |-> o.size, age |-> o.age]

\* the tier an element of sortedResults classifies as
tierOf(o) == detectLanguageGroup(o.parsed, preferredLanguage, o.title)

\* how often x occurs in seq
Count(x, seq) == Cardinality({i \in 1..Len(seq) : seq[i] = x})

\* how often the raw result r occurs in sortedResults
CountOut(r) == Cardinality({i \in 1..Len(ret.sortedResults) : asResult(ret.sortedResults[i]) = r})

preferredLanguageSet == preferredLanguage # <<>> /\ preferredLanguage # NoPreference

\* the age of r is present and beyond the configured filterDays
pastRetention(r) ==
  AGE_THRESHOLDS.configured /\ r.age # Null /\ r.age > AGE_THRESHOLDS.filterDays

\* the quality stage of the call keeps r
keptByQuality(r) ==
  matchesQualityFilter(extractQuality(parseRelease(r.title)), qualityFilter) = "true"

\* C1: with a preferred language set, the items of sortedResults below index
\* group1End classify as preferred, those from group1End up to group2End as
\* english (Fallback) and those from group2End on as other; so no item that
\* is not preferred precedes a preferred one, whatever their ranks, sizes
\* and ages.
C1_TierPartition ==
  (Returned /\ preferredLanguageSet) =>
    /\ ~ret.groupInfo.isNull
    /\ \A i \in 1..Len(ret.sortedResults) :
         tierOf(ret.sortedResults[i]) =
           (IF i <= ret.groupInfo.group1End THEN "preferred"
            ELSE IF i <= ret.groupInfo.group2End THEN "english"
            ELSE "other")
    /\ \A i, j \in 1..Len(ret.sortedResults) :
         (i < j /\ tierOf(ret.sortedResults[j]) = "preferred")
           => tierOf(ret.sortedResults[i]) = "preferred"

\* C1 witness: a preferred item that came in second and has the lower video
\* rank is placed before an item of the other tier
C1_Witness ==
  /\ Returned /\ preferredLanguageSet
  /\ Len(results) = 2 /\ Len(ret.sortedResults) = 2
  /\ asResult(ret.sortedResults[1]) = results[2]
  /\ tierOf(ret.sortedResults[1]) = "preferred"
  /\ tierOf(ret.sortedResults[2]) = "other"
  /\ ret.groupInfo.group1End = 1 /\ ret.groupInfo.group2End = 1
  /\ getVideoQualityRank(ret.sortedResults[1].parsed.resolution)
       < getVideoQualityRank(ret.sortedResults[2].parsed.resolution)

\* C2: the retention stage removes exactly the items whose age is present
\* and greater than filterDays of the configured thresholds: none of them is
\* in sortedResults, and every other item that the quality stage keeps is in
\* sortedResults as often as in the input; without thresholds nothing is
\* removed by age.
C2_RetentionExact ==
  Returned =>
    \A i \in 1..Len(results) :
      LET r == results[i] IN
        /\ pastRetention(r) => CountOut(r) = 0
        /\ (~pastRetention(r) /\ keptByQuality(r)) => CountOut(r) = Count(r, results)

\* C2 witness: with thresholds configured, an item older than filterDays is
\* gone while an item exactly filterDays old stays
C2_Witness ==
  /\ Returned /\ AGE_THRESHOLDS.configured
  /\ \E i \in 1..Len(results) : pastRetention(results[i]) /\ keptByQuality(results[i])
  /\ Len(ret.sortedResults) = 1
  /\ ret.sortedResults[1].age = AGE_THRESHOLDS.filterDays

\* the allowed qualities the seven specific filter values stand for
AllowedQualities(filter) ==
  CASE filter = "4K/2160p" -> {<<"4","K">>}
    [] filter = "1080p" -> {<<"1","0","8","0","p">>}
    [] filter = "720p" -> {<<"7","2","0","p">>}
    [] filter = "480p" -> {<<"4","8","0","p">>}
    [] filter = "4K + 1080p" -> {<<"4","K">>, <<"1","0","8","0","p">>}
    [] filter = "1080p + 720p" -> {<<"1","0","8","0","p">>, <<"7","2","0","p">>}
    [] filter = "720p + 480p" -> {<<"7","2","0","p">>, <<"4","8","0","p">>}

SpecificFilters ==
  {"4K/2160p", "1080p", "720p", "480p", "4K + 1080p", "1080p + 720p", "720p + 480p"}

\* C3: under each of the seven specific qualityFilter values every item of
\* sortedResults has a known extracted quality inside the filter's allowed
\* set; under 'All' or an absent filter the quality stage drops nothing, so
\* every item the retention stage keeps (unknown quality included) is in
\* sortedResults as often as in the input.
C3_QualityFilter ==
  Returned =>
    /\ qualityFilter \in SpecificFilters =>
         \A i \in 1..Len(ret.sortedResults) :
           /\ extractQuality(ret.sortedResults[i].parsed) # <<>>
           /\ extractQuality(ret.sortedResults[i].parsed) \in AllowedQualities(qualityFilter)
    /\ qualityFilter \in {"All", ""} =>
         \A i \in 1..Len(results) :
           ~pastRetention(results[i]) => CountOut(results[i]) = Count(results[i], results)

\* C3 witness: a specific filter has dropped an item of unknown quality and
\* kept one of a quality inside its set
C3_Witness ==
  /\ Returned /\ qualityFilter = "1080p + 720p"
  /\ Len(results) = 2 /\ Len(ret.sortedResults) = 1
  /\ \E i \in 1..Len(results) : extractQuality(parseRelease(results[i].title)) = <<>>
  /\ extractQuality(ret.sortedResults[1].parsed) = s720p

\* the qualityFilter values of the interface
RecognizedFilters == SpecificFilters \cup {"All"}

\* C4: a qualityFilter that is none of the eight recognized values is not
\* fatal and acts as 'All': the call returns and the quality stage drops no
\* item.
C4_UnrecognizedFilterAsAll ==
  (pc = "filterAndSortStreams" /\ qualityFilter # "" /\ qualityFilter \notin RecognizedFilters) =>
    /\ ~ret.threw
    /\ \A i \in 1..Len(results) :
         ~pastRetention(results[i]) => CountOut(results[i]) = Count(results[i], results)

\* C5: every call returns without throwing, and sortedResults has as many
\* items as the input has items that pass the retention and the quality stage.
C5_Totality ==
  pc = "filterAndSortStreams" =>
    /\ ~ret.threw
    /\ Len(ret.sortedResults) =
         Cardinality({i \in 1..Len(results) :
                        ~pastRetention(results[i]) /\ keptByQuality(results[i])})

\* the cascade keys of an item, smaller is better: primary key of the sort
\* method, then video rank, audio rank and size, all three descending
cascadeKeys(o, method) ==
  LET video == getVideoQualityRank(o.parsed.resolution)
      audio == getAudioQualityRank(o.parsed.audioCodec)
      size == IF o.size = Null THEN 0 ELSE o.size
      age == IF o.age = Null THEN 0 ELSE o.age
      primary == CASE method = "Size First" -> 0 - size
                   [] method = "Date First" -> age
                   [] OTHER -> 0 - video
  IN <<primary, 0 - video, 0 - audio, 0 - size>>

\* x is lexicographically not greater than y
LexLeq(x, y) ==
  \E k \in 1..(Len(x) + 1) :
    /\ \A m \in 1..(k - 1) : x[m] = y[m]
    /\ (k = Len(x) + 1 \/ x[k] < y[k])

\* the tier (1, 2, 3) of index i of sortedResults; one tier without groupInfo
tierIndex(i) ==
  IF ret.groupInfo.isNull THEN 1
  ELSE IF i <= ret.groupInfo.group1End THEN 1
  ELSE IF i <= ret.groupInfo.group2End THEN 2
  ELSE 3

\* C6: groupInfo is null exactly when preferredLanguage is absent or is
\* 'No Preference'; then the whole surviving set is sorted as one group (no
\* item is placed behind one that the comparator of the call ranks after it).
C6_GroupInfoNull ==
  Returned =>
    /\ ret.groupInfo.isNull <=> (preferredLanguage = <<>> \/ preferredLanguage = NoPreference)
    /\ ret.groupInfo.isNull =>
         \A i, j \in 1..Len(ret.sortedResults) :
           i < j => LexLeq(cascadeKeys(ret.sortedResults[i], sortMethod),
                           cascadeKeys(ret.sortedResults[j], sortMethod))

\* C6 witness: under the sentinel, a preferred-language (German) release is
\* placed behind an English one of better rank: one group, no tiers
C6_Witness ==
  /\ Returned /\ preferredLanguage = NoPreference /\ ret.groupInfo.isNull
  /\ Len(ret.sortedResults) = 2
  /\ ret.sortedResults[1].title = tEnglishA
  /\ ret.sortedResults[2].title = tGermanTag

RecognizedSortMethods == {"Quality First", "Size First", "Date First"}

\* C7: within each tier of sortedResults (the whole list in single-group
\* mode, and the result of sortWithinGroup) an item placed before another is
\* not worse under the cascade primary key, video rank, audio rank, size.
C7_CascadeOrder ==
  ((Returned \/ pc = "sortWithinGroup") /\ sortMethod \in RecognizedSortMethods) =>
    \A i, j \in 1..Len(ret.sortedResults) :
      (i < j /\ tierIndex(i) = tierIndex(j)) =>
        LexLeq(cascadeKeys(ret.sortedResults[i], sortMethod),
               cascadeKeys(ret.sortedResults[j], sortMethod))

\* C7 witness: two items of one tier tie on the primary key (size) and on
\* video rank and are ordered by audio rank
C7_Witness ==
  /\ Returned /\ sortMethod = "Size First"
  /\ \E i, j \in 1..Len(ret.sortedResults) :
       LET a == cascadeKeys(ret.sortedResults[i], sortMethod)
           b == cascadeKeys(ret.sortedResults[j], sortMethod) IN
         /\ i < j /\ tierIndex(i) = tierIndex(j)
         /\ a[1] = b[1] /\ a[2] = b[2] /\ a[3] < b[3]

\* C8: a sortMethod other than the three recognized ones (absent included)
\* gives exactly the output of 'Quality First' on the same input, for
\* sortWithinGroup and for filterAndSortStreams.
C8_DefaultIsQualityFirst ==
  sortMethod \notin RecognizedSortMethods =>
    /\ pc = "filterAndSortStreams" =>
         ret = filterAndSortStreams(results, "Quality First", preferredLanguage,
                                    qualityFilter, AGE_THRESHOLDS)
    /\ pc = "sortWithinGroup" =>
         ret.sortedResults =
           flatten(sortWithinGroup(parsedItemsOf(results), "Quality First"))

\* C8 witness: an unrecognized sort method has put a higher video rank first
\* against the input order
C8_Witness ==
  /\ pc = "sortWithinGroup" /\ sortMethod = "Newest First"
  /\ Len(results) = 2 /\ Len(ret.sortedResults) = 2
  /\ asResult(ret.sortedResults[1]) = results[2]
  /\ getVideoQualityRank(ret.sortedResults[1].parsed.resolution)
       > getVideoQualityRank(ret.sortedResults[2].parsed.resolution)

\* the tier a raw result of the input is classified into by the call
tierOfResult(r) == detectLanguageGroup(parseRelease(r.title), preferredLanguage, r.title)

\* the cascade keys of a raw result of the input
keysOfResult(r) ==
  cascadeKeys([title |-> r.title, size |-> r.size, age |-> r.age,
               parsed |-> parseRelease(r.title)], sortMethod)

\* the raw results of sortedResults, in order
sortedRaw == [i \in 1..Len(ret.sortedResults) |-> asResult(ret.sortedResults[i])]

\* results with the elements at p and q exchanged
Swap(seq, p, q) ==
  [i \in 1..Len(seq) |-> IF i = p THEN seq[q] ELSE IF i = q THEN seq[p] ELSE seq[i]]

\* the index of the only occurrence of r in seq
IndexOf(r, seq) == CHOOSE i \in 1..Len(seq) : seq[i] = r

\* C9 as stated: exchanging two input items with identical cascade keys
\* leaves their relative positions in sortedResults as they were.
C9_SwapKeepsPositions ==
  Returned =>
    \A p, q \in 1..Len(results) :
      (/\ p < q
       /\ results[p] # results[q]
       /\ Count(results[p], results) = 1 /\ Count(results[q], results) = 1
       /\ keysOfResult(results[p]) = keysOfResult(results[q])
       /\ CountOut(results[p]) = 1 /\ CountOut(results[q]) = 1) =>
        LET swapped ==
              filterAndSortStreams(Swap(results, p, q), sortMethod, preferredLanguage,
                                   qualityFilter, AGE_THRESHOLDS).sortedResults
            swappedRaw == [i \in 1..Len(swapped) |-> asResult(swapped[i])]
        IN (IndexOf(results[p], sortedRaw) < IndexOf(results[q], sortedRaw))
             <=> (IndexOf(results[p], swappedRaw) < IndexOf(results[q], swappedRaw))

\* the tier and the cascade keys of every element of a sequence of raw results
classesOf(seq) == [i \in 1..Len(seq) |-> <<tierOfResult(seq[i]), keysOfResult(seq[i])>>]

\* C9 amended: the sort is stable. The surviving items of one tier that have
\* identical cascade keys are in sortedResults in their input order, so that
\* exchanging two of them in the input exchanges them in sortedResults.
C9_StableOrder ==
  Returned =>
    LET inClass == classesOf(results)
        outClass == classesOf(sortedRaw)
        survives == [i \in 1..Len(results) |->
                       ~pastRetention(results[i]) /\ keptByQuality(results[i])]
    IN \A k \in 1..Len(results) :
         SelectSeqBy(sortedRaw, [i \in 1..Len(sortedRaw) |-> outClass[i] = inClass[k]])
           = SelectSeqBy(results,
               [i \in 1..Len(results) |-> survives[i] /\ inClass[i] = inClass[k]])

\* C9 witness: two different releases with identical keys are in one tier of
\* sortedResults, the one that came second in the input behind the other
C9_Witness ==
  /\ Returned /\ Len(results) = 2 /\ Len(ret.sortedResults) = 2
  /\ results[1].title = tEnglishB /\ results[2].title = tEnglishA
  /\ ret.sortedResults[1].title = tEnglishB /\ ret.sortedResults[2].title = tEnglishA

\* C10: for every sortMethod, of two items of one tier that tie on the
\* primary key and differ only in video quality rank (same audio rank, size
\* and age), the one of higher video rank comes first.
C10_VideoRankBreaksTie ==
  Returned =>
    \A i, j \in 1..Len(ret.sortedResults) :
      LET a == ret.sortedResults[i]
          b == ret.sortedResults[j] IN
        (/\ tierIndex(i) = tierIndex(j)
         /\ cascadeKeys(a, sortMethod)[1] = cascadeKeys(b, sortMethod)[1]
         /\ getAudioQualityRank(a.parsed.audioCodec) = getAudioQualityRank(b.parsed.audioCodec)
         /\ a.size = b.size /\ a.age = b.age
         /\ getVideoQualityRank(a.parsed.resolution) > getVideoQualityRank(b.parsed.resolution))
          => i < j

\* C10 witness: under 'Date First' two items of equal age, audio rank and
\* size came in with the lower video rank first and leave in the other order
C10_Witness ==
  /\ Returned /\ sortMethod = "Date First"
  /\ Len(results) = 2 /\ Len(ret.sortedResults) = 2
  /\ results[1].title = tGermanTag /\ results[2].title = tEnglishA
  /\ ret.sortedResults[1].title = tEnglishA /\ ret.sortedResults[2].title = tGermanTag

unparseable(title) == title = <<>> \/ filenameParse(title).threw

\* C13: an empty title or a parser fault gives the empty descriptor for that
\* item only. The call still returns; under 'All' or an absent filter the
\* item stays in sortedResults, ranked as unknown video and audio quality;
\* every other item keeps the descriptor the parser extracted and its place
\* in the output.
C13_ParserFaultIsolated ==
  /\ (pc = "filterAndSortStreams" /\ qualityFilter \in RecognizedFilters \cup {""})
       => ~ret.threw
  /\ Returned =>
       \A j \in 1..Len(ret.sortedResults) :
         LET o == ret.sortedResults[j] IN
           IF unparseable(o.title)
             THEN /\ o.parsed = EmptyDescriptor
                  /\ getVideoQualityRank(o.parsed.resolution) = 0
                  /\ getAudioQualityRank(o.parsed.audioCodec) = 0
             ELSE o.parsed = filenameParse(o.title).value
  /\ (Returned /\ qualityFilter \in {"All", ""}) =>
       \A i \in 1..Len(results) :
         ~pastRetention(results[i]) => CountOut(results[i]) = Count(results[i], results)

\* C13 witness: a release the parser faults on is returned with the empty
\* descriptor, behind a parsed release that kept its descriptor
C13_Witness ==
  /\ Returned /\ qualityFilter = "All" /\ Len(results) = 2
  /\ results[1].title = tFrenchFault
  /\ Len(ret.sortedResults) = 2
  /\ ret.sortedResults[2].title = tFrenchFault
  /\ ret.sortedResults[2].parsed = EmptyDescriptor
  /\ ret.sortedResults[1].parsed.resolution = s1080P

\* ------------------------------------------------- retention classification
\* the largest threshold, in days, of the configurations explored below
MaxDays == 3

\* the status object: null, or the status with its label and its warning
NullStatus == [isNull |-> TRUE, status |-> "", label |-> "", warning |-> ""]

statusObject(status, label, warning) ==
  [isNull |-> FALSE, status |-> status, label |-> label, warning |-> warning]

\* mutant of getAgeHealthStatus: the fresh rule is tested before the aging rule
getAgeHealthStatus_FreshBeforeAging(age, thresholds) ==
  IF ~thresholds.configured \/ age = Null THEN NullStatus
  ELSE IF age > thresholds.filterDays
    THEN statusObject("filtered", "Filtered", "May be incomplete")
  ELSE IF age >= thresholds.warningDays
    THEN statusObject("warning", "Warning", "May be incomplete")
  ELSE IF age <= thresholds.freshDays
    THEN statusObject("fresh", "Fresh", "")
  ELSE IF age >= thresholds.agingDays
    THEN statusObject("aging", "Aging", "")
  ELSE statusObject("standard", "Standard", "")

\* mutant of getAgeHealthStatus: the guard is !age, so age 0 counts as absent
getAgeHealthStatus_ZeroAbsent(age, thresholds) ==
  IF ~thresholds.configured \/ age = Null \/ age = 0 THEN NullStatus
  ELSE IF age > thresholds.filterDays
    THEN statusObject("filtered", "Filtered", "May be incomplete")
  ELSE IF age >= thresholds.warningDays
    THEN statusObject("warning", "Warning", "May be incomplete")
  ELSE IF age >= thresholds.agingDays
    THEN statusObject("aging", "Aging", "")
  ELSE IF age <= thresholds.freshDays
    THEN statusObject("fresh", "Fresh", "")
  ELSE statusObject("standard", "Standard", "")

\* getAgeHealthStatus
getAgeHealthStatus(age, thresholds) ==
  IF ~thresholds.configured \/ age = Null THEN NullStatus
  ELSE IF age > thresholds.filterDays
    THEN statusObject("filtered", "Filtered", "May be incomplete")
  ELSE IF age >= thresholds.warningDays
    THEN statusObject("warning", "Warning", "May be incomplete")
  ELSE IF age >= thresholds.agingDays
    THEN statusObject("aging", "Aging", "")
  ELSE IF age <= thresholds.freshDays
    THEN statusObject("fresh", "Fresh", "")
  ELSE statusObject("standard", "Standard", "")

\* the thresholds of the documented example
DocumentedThresholds ==
  [configured |-> TRUE, freshDays |-> 7, agingDays |-> 30, warningDays |-> 60,
   filterDays |-> 90]

\* absent, every combination of thresholds up to MaxDays (ordered or not), and
\* the documented example
RetentionConfigs ==
  {NoThresholds, DocumentedThresholds} \cup
  [configured : {TRUE}, freshDays : 0..MaxDays, agingDays : 0..MaxDays,
   warningDays : 0..MaxDays, filterDays : 0..MaxDays]

\* absent, every age around the thresholds, and the age of the documented example
Ages == {Null, 100} \cup (0..(MaxDays + 1))

\* search results that differ in age only
agedResult(age) == [title |-> tEnglishA, size |-> 1, age |-> age]

AgedResultLists ==
  {<<agedResult(a)>> : a \in Ages} \cup
  {<<agedResult(a), agedResult(b)>> : a \in Ages, b \in Ages}

InitRetention ==
  /\ AGE_THRESHOLDS \in RetentionConfigs
  /\ pc = "idle"
  /\ results = <<>>
  /\ sortMethod = ""
  /\ preferredLanguage = <<>>
  /\ qualityFilter = ""
  /\ ret = NoReturn
  /\ inputAfter = <<>>
  /\ arg = NoArg
  /\ INDEXER_MANAGER_STRICT_ID_MATCH = FALSE
  /\ HandlersIdle

\* a call of getAgeHealthStatus
GetAgeHealthStatus ==
  /\ pc = "idle"
  /\ \E age \in Ages :
       /\ arg' = age
       /\ ret' = getAgeHealthStatus(age, AGE_THRESHOLDS)
  /\ pc' = "getAgeHealthStatus"
  /\ UNCHANGED handlerVars
  /\ UNCHANGED <<AGE_THRESHOLDS, results, sortMethod, preferredLanguage, qualityFilter,
                 inputAfter>>

\* a call of shouldFilterByAge
ShouldFilterByAge ==
  /\ pc = "idle"
  /\ \E age \in Ages :
       /\ arg' = age
       /\ ret' = [value |-> shouldFilterByAge(age, AGE_THRESHOLDS)]
  /\ pc' = "shouldFilterByAge"
  /\ UNCHANGED handlerVars
  /\ UNCHANGED <<AGE_THRESHOLDS, results, sortMethod, preferredLanguage, qualityFilter,
                 inputAfter>>

\* filterAndSortStreams on results that differ in age only
FilterAndSortStreamsByAge ==
  /\ pc = "idle"
  /\ \E r \in AgedResultLists :
       /\ results' = r
       /\ ret' = filterAndSortStreams(r, "", <<>>, "", AGE_THRESHOLDS)
       /\ inputAfter' = resultsAfterFilterAndSortStreams(r, "", <<>>, "", AGE_THRESHOLDS)
  /\ sortMethod' = ""
  /\ preferredLanguage' = <<>>
  /\ qualityFilter' = ""
  /\ pc' = "filterAndSortStreams"
  /\ UNCHANGED handlerVars
  /\ UNCHANGED <<AGE_THRESHOLDS, arg>>

NextRetention ==
  GetAgeHealthStatus \/ ShouldFilterByAge \/ FilterAndSortStreamsByAge \/ NextRequest

SpecRetention == InitRetention /\ [][NextRetention]_vars

\* C14: getAgeHealthStatus returns null when the thresholds or the age are
\* absent; otherwise the status is the first match of: age > filterDays is
\* 'filtered', age >= warningDays is 'warning', age >= agingDays is 'aging',
\* age <= freshDays is 'fresh', anything else is 'standard'. Age 100 under
\* 7/30/60/90 is 'filtered'; age 0 is classified.
C14_OrderedRules ==
  pc = "getAgeHealthStatus" =>
    LET t == AGE_THRESHOLDS
        a == arg
    IN  IF ~t.configured \/ a = Null THEN ret.isNull
        ELSE /\ ~ret.isNull
             /\ a > t.filterDays => ret.status = "filtered"
             /\ (a <= t.filterDays /\ a >= t.warningDays) => ret.status = "warning"
             /\ (a <= t.filterDays /\ a < t.warningDays /\ a >= t.agingDays)
                  => ret.status = "aging"
             /\ (a <= t.filterDays /\ a < t.warningDays /\ a < t.agingDays
                 /\ a <= t.freshDays) => ret.status = "fresh"
             /\ (a <= t.filterDays /\ a < t.warningDays /\ a < t.agingDays
                 /\ a > t.freshDays) => ret.status = "standard"
             /\ (a = 100 /\ t = DocumentedThresholds) => ret.status = "filtered"
             /\ a = 0 => ret.status \in {"filtered", "warning", "aging", "fresh", "standard"}

\* C14 witness: the documented example, age 100 under 7/30/60/90
C14_Witness ==
  /\ pc = "getAgeHealthStatus"
  /\ AGE_THRESHOLDS = DocumentedThresholds
  /\ arg = 100
  /\ ~ret.isNull /\ ret.status = "filtered"

\* C15: for every age and every threshold configuration shouldFilterByAge is
\* true exactly when getAgeHealthStatus classifies the age as 'filtered', and
\* no item of sortedResults has an age that classifies as 'filtered'.
C15_FilterIffFiltered ==
  /\ pc = "shouldFilterByAge" =>
       (ret.value <=>
          LET h == getAgeHealthStatus(arg, AGE_THRESHOLDS)
          IN  ~h.isNull /\ h.status = "filtered")
  /\ Returned =>
       \A j \in 1..Len(ret.sortedResults) :
         LET h == getAgeHealthStatus(ret.sortedResults[j].age, AGE_THRESHOLDS)
         IN  h.isNull \/ h.status # "filtered"

\* C15 witness: under mis-ordered thresholds (filterDays below freshDays) an
\* age that is within freshDays and beyond filterDays is filtered
C15_Witness ==
  /\ pc = "shouldFilterByAge"
  /\ AGE_THRESHOLDS.configured
  /\ AGE_THRESHOLDS.filterDays < AGE_THRESHOLDS.freshDays
  /\ arg # Null /\ arg <= AGE_THRESHOLDS.freshDays
  /\ ret.value

\* ------------------------------------------------------- tier classifier
\* the longest languages list of a descriptor explored below
MaxLanguages == 2

\* languages as the parser names them, in the spellings the comparison must fold
LanguageNames == {<<"G","e","r","m","a","n">>, <<"E","N","G","L","I","S","H">>, <<"f","r","e","n","c","h">>, <<"H","i","n","d","i">>}

LanguageLists == UNION {[1..n -> LanguageNames] : n \in 0..MaxLanguages}

\* the descriptors detectLanguageGroup is called with
Descriptors ==
  [resolution : {<<>>}, audioCodec : {<<>>}, languages : LanguageLists, multi : BOOLEAN]

\* the preference as the user may have written it
ClassifierPreferences == {<<>>, NoPreference, <<"g","e","r","m","a","n">>, <<"F","r","e","n","c","h">>, <<"d","u","t","c","h">>, <<"E","n","g","l","i","s","h">>}

tFrenchGerman == <<"x",".","F","r","e","n","c","h",".","G","e","r","m","a","n">>
tLowerGermanFrench == <<"x",".","g","e","r","m","a","n",".","f","r","e","n","c","h">>
tTurkish == <<"x",".","T","U","R","K","I","S","H">>
tPolishDutch == <<"x",".","P","o","l","i","s","h",".","D","u","t","c","h">>

\* titles with two tags in either order, one tag, and none
ClassifierTitles ==
  {tFrenchGerman, tLowerGermanFrench, tTurkish, tPolishDutch, tEnglishA, tEmpty}

\* a call of detectLanguageGroup
DetectLanguageGroup ==
  /\ pc = "idle"
  /\ \E parsed \in Descriptors, pl \in ClassifierPreferences, title \in ClassifierTitles :
       /\ arg' = [parsed |-> parsed, title |-> title]
       /\ preferredLanguage' = pl
       /\ ret' = [group |-> detectLanguageGroup(parsed, pl, title)]
  /\ pc' = "detectLanguageGroup"
  /\ UNCHANGED handlerVars
  /\ UNCHANGED <<AGE_THRESHOLDS, results, sortMethod, qualityFilter, inputAfter>>

NextLanguage == DetectLanguageGroup \/ NextRequest

SpecLanguage == Init /\ [][NextLanguage]_vars

\* the languages of the descriptor of the call, folded to lower case
listedLanguages ==
  {toLowerCase(arg.parsed.languages[i]) : i \in 1..Len(arg.parsed.languages)}

\* the tier by the listed languages alone
tierByLanguages ==
  IF toLowerCase(preferredLanguage) \in listedLanguages THEN "preferred"
  ELSE IF senglish \in listedLanguages THEN "english"
  ELSE "other"

\* C16: with a preferred language set and multi true, the tier is Preferred
\* iff languages lists the preferred language (case-insensitively), else
\* Fallback iff it lists 'english', else Other; the title plays no part, so a
\* MULTi release with no listed language is Other whatever its title names.
C16_MultiByLanguagesOnly ==
  (pc = "detectLanguageGroup" /\ preferredLanguageSet /\ arg.parsed.multi) =>
    /\ ret.group = tierByLanguages
    /\ arg.parsed.languages = <<>> => ret.group = "other"

\* C16 witness: a MULTi release without languages whose title names the
\* preferred language is Other
C16_Witness ==
  /\ pc = "detectLanguageGroup" /\ arg.parsed.multi
  /\ arg.parsed.languages = <<>>
  /\ toLowerCase(preferredLanguage) = <<"g","e","r","m","a","n">>
  /\ arg.title = tFrenchGerman
  /\ ret.group = "other"

\* C17: with a preferred language set, multi not true and a non-empty
\* languages list, the tier is Preferred iff the list has the preferred
\* language (case-insensitively), else Fallback iff it has 'english', else
\* Other; with both present it is Preferred.
C17_ListedLanguagesDecide ==
  (pc = "detectLanguageGroup" /\ preferredLanguageSet /\ ~arg.parsed.multi
     /\ arg.parsed.languages # <<>>) =>
    /\ ret.group = tierByLanguages
    /\ ({toLowerCase(preferredLanguage), senglish} \subseteq listedLanguages)
         => ret.group = "preferred"

\* C17 witness: English is listed before the preferred language, both in
\* another spelling than the preference, and the release is Preferred
C17_Witness ==
  /\ pc = "detectLanguageGroup" /\ ~arg.parsed.multi
  /\ arg.parsed.languages = <<<<"E","N","G","L","I","S","H">>, <<"G","e","r","m","a","n">>>>
  /\ preferredLanguage = <<"g","e","r","m","a","n">>
  /\ ret.group = "preferred"

\* the dictionary in the order the title is scanned against
DictionaryOrder ==
  <<<<"g","e","r","m","a","n">>,
    <<"f","r","e","n","c","h">>,
    <<"s","p","a","n","i","s","h">>,
    <<"i","t","a","l","i","a","n">>,
    <<"p","o","r","t","u","g","u","e","s","e">>,
    <<"r","u","s","s","i","a","n">>,
    <<"j","a","p","a","n","e","s","e">>,
    <<"k","o","r","e","a","n">>,
    <<"c","h","i","n","e","s","e">>,
    <<"a","r","a","b","i","c">>,
    <<"h","i","n","d","i">>,
    <<"d","u","t","c","h">>,
    <<"p","o","l","i","s","h">>,
    <<"t","u","r","k","i","s","h">>>>

\* entry k of the dictionary is the first one the upper-cased title contains
firstHit(k) ==
  /\ includes(toUpperCase(arg.title), toUpperCase(DictionaryOrder[k]))
  /\ \A j \in 1..(k - 1) :
       ~includes(toUpperCase(arg.title), toUpperCase(DictionaryOrder[j]))

\* C18: with a preferred language set, multi not true and no listed language,
\* the title is scanned against the dictionary in the order German, French,
\* Spanish, Italian, Portuguese, Russian, Japanese, Korean, Chinese, Arabic,
\* Hindi, Dutch, Polish, Turkish; the first entry the title contains decides
\* (Preferred if it is the preferred language, else Other), and a title with
\* no entry is Fallback.
C18_FirstDictionaryHit ==
  (pc = "detectLanguageGroup" /\ preferredLanguageSet /\ ~arg.parsed.multi
     /\ arg.parsed.languages = <<>>) =>
    /\ \A k \in 1..Len(DictionaryOrder) :
         firstHit(k) =>
           ret.group = IF DictionaryOrder[k] = toLowerCase(preferredLanguage)
                         THEN "preferred" ELSE "other"
    /\ (\A k \in 1..Len(DictionaryOrder) : ~firstHit(k)) => ret.group = "english"

\* C18 witness: the title names French before German, the preference is
\* French, and the release is Other because German is the earlier entry
C18_Witness ==
  /\ pc = "detectLanguageGroup" /\ ~arg.parsed.multi
  /\ arg.parsed.languages = <<>>
  /\ arg.title = tFrenchGerman
  /\ toLowerCase(preferredLanguage) = <<"f","r","e","n","c","h">>
  /\ ret.group = "other"

\* ----------------------------------------------------------- quality ranks
\* resolutions as a parser may spell them: every case variant of 2160p, 4K
\* and UHD, the other ranked resolutions, an unranked one and none
Resolutions ==
  {<<"2","1","6","0","P">>, <<"2","1","6","0","p">>, <<"4","K">>, <<"4","k">>,
   <<"U","H","D">>, <<"U","H","d">>, <<"U","h","D">>, <<"U","h","d">>, <<"u","H","D">>,
   <<"u","H","d">>, <<"u","h","D">>, <<"u","h","d">>, <<"1","0","8","0","p">>,
   <<"1","0","8","0","P">>, <<"7","2","0","p">>, <<"4","8","0","P">>, <<"5","7","6","p">>,
   <<>>}

\* the names a codec string is made of
CodecTokens ==
  {<<"T","r","u","e","H","D">>, <<"A","t","m","o","s">>, <<"D","T","S","-","H","D">>,
   <<"M","A">>, <<"E","A","C","3">>, <<"E","-","A","C","-","3">>, <<"D","D","+">>,
   <<"D","D","P">>, <<"A","C","3">>, <<"D","D">>, <<"D","T","S">>, <<"A","A","C">>,
   <<"F","L","A","C">>}

\* a.concat(' ', b)
joined(a, b) == a \o <<" ">> \o b

\* no codec, one name, or two names in either order
AudioCodecs ==
  {<<>>} \cup CodecTokens \cup {joined(a, b) : a \in CodecTokens, b \in CodecTokens}

\* the qualities extractQuality hands to matchesQualityFilter
Qualities == {extractQuality([EmptyDescriptor EXCEPT !.resolution = r]) : r \in Resolutions}

\* a call of getVideoQualityRank
GetVideoQualityRank ==
  /\ pc = "idle"
  /\ \E resolution \in Resolutions :
       /\ arg' = resolution
       /\ ret' = [rank |-> getVideoQualityRank(resolution)]
  /\ pc' = "getVideoQualityRank"
  /\ UNCHANGED handlerVars
  /\ UNCHANGED <<AGE_THRESHOLDS, results, sortMethod, preferredLanguage, qualityFilter,
                 inputAfter>>

\* a call of extractQuality on a descriptor with the resolution
ExtractQuality ==
  /\ pc = "idle"
  /\ \E resolution \in Resolutions :
       /\ arg' = resolution
       /\ ret' = [quality |-> extractQuality([EmptyDescriptor EXCEPT !.resolution = resolution])]
  /\ pc' = "extractQuality"
  /\ UNCHANGED handlerVars
  /\ UNCHANGED <<AGE_THRESHOLDS, results, sortMethod, preferredLanguage, qualityFilter,
                 inputAfter>>

\* a call of matchesQualityFilter
MatchesQualityFilter ==
  /\ pc = "idle"
  /\ \E quality \in Qualities, filter \in QualityFilters :
       /\ arg' = quality
       /\ qualityFilter' = filter
       /\ ret' = [verdict |-> matchesQualityFilter(quality, filter)]
  /\ pc' = "matchesQualityFilter"
  /\ UNCHANGED handlerVars
  /\ UNCHANGED <<AGE_THRESHOLDS, results, sortMethod, preferredLanguage, inputAfter>>

\* a call of getAudioQualityRank
GetAudioQualityRank ==
  /\ pc = "idle"
  /\ \E audioCodec \in AudioCodecs :
       /\ arg' = audioCodec
       /\ ret' = [rank |-> getAudioQualityRank(audioCodec)]
  /\ pc' = "getAudioQualityRank"
  /\ UNCHANGED handlerVars
  /\ UNCHANGED <<AGE_THRESHOLDS, results, sortMethod, preferredLanguage, qualityFilter,
                 inputAfter>>

NextRank ==
  \/ GetVideoQualityRank
  \/ ExtractQuality
  \/ MatchesQualityFilter
  \/ GetAudioQualityRank
  \/ NextRequest

SpecRank == Init /\ [][NextRank]_vars

\* C19: every case variant of '2160p', '4K' or 'UHD' ranks 4 and is
\* extracted as '4K', so it passes the '4K/2160p' and the '4K + 1080p'
\* filter; and for every resolution the rank is 4 iff the extracted quality
\* is '4K'.
C19_SynonymsOf4K ==
  pc = "extractQuality" =>
    /\ toUpperCase(arg) \in {s2160P, s4K, sUHD} =>
         /\ getVideoQualityRank(arg) = 4
         /\ ret.quality = s4K
         /\ matchesQualityFilter(ret.quality, "4K/2160p") = "true"
         /\ matchesQualityFilter(ret.quality, "4K + 1080p") = "true"
    /\ getVideoQualityRank(arg) = 4 <=> ret.quality = s4K

\* the rank the priority list gives an upper-cased codec string
priorityRank(codec) ==
  IF codec = <<>> THEN 0
  ELSE IF \/ includes(codec, sTRUEHD) /\ includes(codec, sATMOS)
          \/ includes(codec, sDTSHD) /\ includes(codec, sMA) THEN 6
  ELSE IF includes(codec, sTRUEHD) THEN 6
  ELSE IF includes(codec, sDTSHD) THEN 5
  ELSE IF \/ includes(codec, sEAC3) \/ includes(codec, sEhAC3)
          \/ includes(codec, sDDplus) \/ includes(codec, sDDP) THEN 4
  ELSE IF \/ includes(codec, sAC3) \/ includes(codec, sDDsp) \/ codec = sDD
          \/ includes(codec, sDTS) THEN 3
  ELSE IF includes(codec, sAAC) THEN 2
  ELSE 1

\* C20: for every codec string getAudioQualityRank is the first match of the
\* priority list over the upper-cased string: TrueHD with Atmos or DTS-HD
\* with MA 6, any TrueHD 6, DTS-HD 5, EAC3/E-AC-3/DD+/DDP 4, AC3, bare DD or
\* DTS 3, AAC 2, any other non-empty string 1, empty 0; so a codec naming
\* TRUEHD ranks 6 whatever else it names.
C20_AudioPriorityList ==
  pc = "getAudioQualityRank" =>
    /\ ret.rank = priorityRank(toUpperCase(arg))
    /\ includes(toUpperCase(arg), sTRUEHD) => ret.rank = 6

\* ------------------------------------------------------------ group offsets
\* C21: whenever groupInfo is non-null, group1End is preferredCount,
\* group2End is preferredCount + englishCount, the three counts add up to
\* the length of sortedResults, and 0 <= group1End <= group2End <= that length.
C21_GroupOffsets ==
  (Returned /\ ~ret.groupInfo.isNull) =>
    LET g == ret.groupInfo IN
      /\ g.group1End = g.preferredCount
      /\ g.group2End = g.preferredCount + g.englishCount
      /\ g.preferredCount + g.englishCount + g.otherCount = Len(ret.sortedResults)
      /\ 0 <= g.group1End
      /\ g.group1End <= g.group2End
      /\ g.group2End <= Len(ret.sortedResults)

\* C21 witness: no preferred item, one english and one other: the offsets
\* are 0 and 1 in a result of two
C21_Witness ==
  /\ Returned /\ ~ret.groupInfo.isNull
  /\ ret.groupInfo.preferredCount = 0
  /\ ret.groupInfo.englishCount = 1
  /\ ret.groupInfo.otherCount = 1
  /\ ret.groupInfo.group1End = 0 /\ ret.groupInfo.group2End = 1
  /\ Len(ret.sortedResults) = 2

\* a call has returned a sorted array: filterAndSortStreams without an
\* exception, or sortWithinGroup
Sorted == Returned \/ pc = "sortWithinGroup"

\* C22: under 'Date First' an item of unknown age is compared as age 0, so
\* within a tier it is never behind an item of an age greater than 0; under
\* 'Size First' an item of unknown size is compared as size 0, so within a
\* tier it is never in front of an item of positive size.
C22_UnknownAsZero ==
  /\ (Sorted /\ sortMethod = "Date First") =>
       \A i, j \in 1..Len(ret.sortedResults) :
         (i < j /\ tierIndex(i) = tierIndex(j) /\ ret.sortedResults[j].age = Null)
           => (ret.sortedResults[i].age = Null \/ ret.sortedResults[i].age <= 0)
  /\ (Sorted /\ sortMethod = "Size First") =>
       \A i, j \in 1..Len(ret.sortedResults) :
         (i < j /\ tierIndex(i) = tierIndex(j) /\ ret.sortedResults[i].size = Null)
           => (ret.sortedResults[j].size = Null \/ ret.sortedResults[j].size <= 0)

\* C22 witness: under 'Date First' a 720P release of unknown age that came in
\* second is placed in front of a 2160P release of age 8
C22_Witness ==
  /\ Returned /\ sortMethod = "Date First" /\ ret.groupInfo.isNull
  /\ Len(results) = 2 /\ Len(ret.sortedResults) = 2
  /\ results[1].title = tMulti /\ results[1].age = 8
  /\ ret.sortedResults[1].title = tGermanTag /\ ret.sortedResults[1].age = Null
  /\ ret.sortedResults[2].title = tMulti

\* -------------------------------------------------------------- comparator
\* the largest size and age of the items the comparator is explored on
MaxKey == 1

\* the descriptors of the compared items: the empty one, and every
\* combination of an absent or ranked resolution and audio codec
ComparedDescriptors ==
  [resolution : {<<>>, s720P, s1080P}, audioCodec : {<<>>, sAC3},
   languages : {<<>>}, multi : {FALSE}]

\* the items sortWithinGroup is handed: { result, parsed }
ComparedItems ==
  [result : [title : {tEmpty}, size : {Null} \cup (0..MaxKey), age : {Null} \cup (0..MaxKey)],
   parsed : ComparedDescriptors]

InitCompare ==
  /\ AGE_THRESHOLDS = NoThresholds
  /\ pc = "idle"
  /\ results = <<>>
  /\ sortMethod = ""
  /\ preferredLanguage = <<>>
  /\ qualityFilter = ""
  /\ ret = NoReturn
  /\ inputAfter = <<>>
  /\ arg = NoArg
  /\ INDEXER_MANAGER_STRICT_ID_MATCH = FALSE
  /\ HandlersIdle

\* one call of the comparator by Array.prototype.sort
Compare ==
  /\ pc = "idle"
  /\ \E a \in ComparedItems, b \in ComparedItems, sm \in SortMethods :
       /\ arg' = <<a, b>>
       /\ sortMethod' = sm
       /\ ret' = [value |-> compare(a, b, sm)]
  /\ pc' = "compare"
  /\ UNCHANGED handlerVars
  /\ UNCHANGED <<AGE_THRESHOLDS, results, preferredLanguage, qualityFilter, inputAfter>>

NextCompare == Compare \/ NextRequest

SpecCompare == InitCompare /\ [][NextCompare]_vars

\* the sign of a number
sign(n) == IF n < 0 THEN 0 - 1 ELSE IF n > 0 THEN 1 ELSE 0

\* the keys of the cascade of an item { result, parsed } under a sort method
keysOfItem(x, method) ==
  cascadeKeys([parsed |-> x.parsed, size |-> x.result.size, age |-> x.result.age], method)

\* C23: for every sortMethod the comparator is a consistent total preorder:
\* it returns 0 exactly when the two items agree on every key of the cascade
\* (primary, video rank, audio rank, size with unknown as 0), its sign for
\* (a, b) is the opposite of its sign for (b, a), it is transitive, and it
\* returns a number for items with the empty descriptor as well.
C23_TotalPreorder ==
  pc = "compare" =>
    LET a == arg[1]
        b == arg[2]
    IN  /\ ret.value \in Int
        /\ ret.value = 0 <=> keysOfItem(a, sortMethod) = keysOfItem(b, sortMethod)
        /\ sign(ret.value) = 0 - sign(compare(b, a, sortMethod))
        /\ \A c \in ComparedItems :
             (ret.value <= 0 /\ compare(b, c, sortMethod) <= 0)
               => compare(a, c, sortMethod) <= 0

\* C23 witness: two items with the empty descriptor, one of unknown size and
\* one of size 0, that differ in age compare as equal under 'Size First'
C23_Witness ==
  /\ pc = "compare" /\ sortMethod = "Size First"
  /\ arg[1].parsed = EmptyDescriptor /\ arg[2].parsed = EmptyDescriptor
  /\ arg[1].result.size = Null /\ arg[2].result.size = 0
  /\ arg[1].result.age # arg[2].result.age
  /\ ret.value = 0

\* ------------------------------------------------------------- permutation
\* r passes the retention and the quality stage of the call
survives(r) == ~pastRetention(r) /\ keptByQuality(r)

\* C24: sortedResults is a permutation of the surviving input items: every
\* input item that passes both stages is there exactly as often as in the
\* input (no duplication across tiers, no loss), with its fields unchanged
\* and its own descriptor as 'parsed'; an item that failed a stage or is not
\* in the input is not there.
C24_PermutationOfSurvivors ==
  Returned =>
    /\ \A i \in 1..Len(results) :
         CountOut(results[i]) = IF survives(results[i]) THEN Count(results[i], results) ELSE 0
    /\ \A j \in 1..Len(ret.sortedResults) :
         LET o == ret.sortedResults[j] IN
           /\ DOMAIN o = {"title", "size", "age", "parsed"}
           /\ \E i \in 1..Len(results) : results[i] = asResult(o) /\ survives(results[i])
           /\ o.parsed = parseRelease(o.title)
    /\ Len(ret.sortedResults) = Cardinality({i \in 1..Len(results) : survives(results[i])})

\* C24 witness: with a preferred language set, the first input item is past
\* retention and gone, the second is returned with its descriptor
C24_Witness ==
  /\ Returned /\ preferredLanguageSet
  /\ Len(results) = 2 /\ Len(ret.sortedResults) = 1
  /\ pastRetention(results[1])
  /\ asResult(ret.sortedResults[1]) = results[2]
  /\ ret.sortedResults[1].parsed = filenameParse(results[2].title).value
  /\ ret.sortedResults[1].parsed # EmptyDescriptor

\* ------------------------------------------------------ retention ordering
\* the thresholds are configured and in the documented order
orderedThresholds ==
  /\ AGE_THRESHOLDS.configured
  /\ AGE_THRESHOLDS.freshDays <= AGE_THRESHOLDS.agingDays
  /\ AGE_THRESHOLDS.agingDays <= AGE_THRESHOLDS.warningDays
  /\ AGE_THRESHOLDS.warningDays <= AGE_THRESHOLDS.filterDays

\* the place of a status in fresh < standard < aging < warning < filtered
statusRank(status) ==
  CASE status = "fresh" -> 1
    [] status = "standard" -> 2
    [] status = "aging" -> 3
    [] status = "warning" -> 4
    [] status = "filtered" -> 5

\* under ordered thresholds no later age has an earlier status than the age
\* of the call
monotoneFromArg ==
  (pc = "getAgeHealthStatus" /\ orderedThresholds /\ arg # Null) =>
    \A b \in Ages \ {Null} :
      arg <= b =>
        statusRank(ret.status) <= statusRank(getAgeHealthStatus(b, AGE_THRESHOLDS).status)

\* the age of the call is the common value of freshDays and agingDays
atFreshAgingTie ==
  /\ pc = "getAgeHealthStatus" /\ orderedThresholds
  /\ AGE_THRESHOLDS.freshDays = AGE_THRESHOLDS.agingDays
  /\ arg = AGE_THRESHOLDS.freshDays

\* C25 as stated: under ordered thresholds the status is monotone in age,
\* and with freshDays = agingDays an item of exactly that age is 'aging'.
C25_AgingAtEveryTie ==
  /\ monotoneFromArg
  /\ atFreshAgingTie => ret.status = "aging"

\* C25: under ordered thresholds the status is monotone in age under
\* fresh < standard < aging < warning < filtered; with freshDays = agingDays
\* an item of exactly that age is never 'fresh': it is 'aging' when that age
\* is below warningDays and 'warning' when warningDays has the same value.
C25_MonotoneNotFreshAtTie ==
  /\ monotoneFromArg
  /\ atFreshAgingTie =>
       /\ ret.status # "fresh"
       /\ arg < AGE_THRESHOLDS.warningDays => ret.status = "aging"
       /\ arg >= AGE_THRESHOLDS.warningDays => ret.status = "warning"

\* C25 witness: freshDays = agingDays below warningDays, the age is that
\* value and the status is 'aging'
C25_Witness ==
  /\ atFreshAgingTie
  /\ arg < AGE_THRESHOLDS.warningDays
  /\ arg > 0
  /\ ret.status = "aging"

\* ------------------------------------------------------------ searchProwlarr
\* the largest number of search plans of a call explored below
MaxPlans == 2

\* a number that is neither absent nor 0
truthy(n) == n # Null /\ n # 0

\* String(n) of a number of one digit
numberString(n) == <<(<<"0","1","2","3","4","5","6","7","8","9">>)[n + 1]>>

\* String.prototype.trim
RECURSIVE trim(_)
trim(s) ==
  IF s = <<>> THEN s
  ELSE IF Head(s) = " " THEN trim(Tail(s))
  ELSE IF s[Len(s)] = " " THEN trim(SubSeq(s, 1, Len(s) - 1))
  ELSE s

sunknown == <<"u","n","k","n","o","w","n">>

\* deriveResultKey of an object: `${indexerId}|${indexer}|${title}|${size}`
deriveResultKey(result) ==
  LET indexerId == IF truthy(result.indexerId) THEN numberString(result.indexerId)
                   ELSE IF truthy(result.IndexerId) THEN numberString(result.IndexerId)
                   ELSE sunknown
      indexer == IF result.indexer # <<>> THEN result.indexer ELSE result.Indexer
      title == trim(IF result.title # <<>> THEN result.title ELSE result.Title)
      size == IF truthy(result.size) THEN result.size
              ELSE IF truthy(result.Size) THEN result.Size
              ELSE 0
  IN indexerId \o <<"|">> \o indexer \o <<"|">> \o title \o <<"|">> \o numberString(size)

\* a search result of the indexer manager; guid tells apart results of one key
release1 ==
  [isObject |-> TRUE, indexerId |-> 1, IndexerId |-> Null, indexer |-> <<"x">>,
   Indexer |-> <<>>, title |-> <<"t">>, Title |-> <<>>, size |-> 1, Size |-> Null,
   downloadUrl |-> "http://a/1", guid |-> 1, torrent |-> FALSE]

\* the same key as release1 from another search
release1Again == [release1 EXCEPT !.guid = 2, !.downloadUrl = "http://a/2"]

\* the same key as release1 once the title is trimmed
release1Padded == [release1 EXCEPT !.guid = 3, !.title = <<"t"," ">>]

\* the same key as release1 through the capitalised fields, without indexerId
release1Capitalised ==
  [release1 EXCEPT !.guid = 4, !.indexerId = Null, !.IndexerId = 1, !.title = <<>>,
                   !.Title = <<"t">>, !.size = 0, !.Size = 1]

release2 == [release1 EXCEPT !.guid = 5, !.indexerId = 2, !.title = <<"u">>, !.size = Null]

withoutDownloadUrl == [release2 EXCEPT !.guid = 6, !.downloadUrl = ""]

torrentRelease == [release2 EXCEPT !.guid = 7, !.torrent = TRUE]

\* an element of the response that is no object (null, a string)
notAnObject == [release2 EXCEPT !.guid = 8, !.isObject = FALSE]

\* what the request of a plan ends with: the response data, or an error
fulfilledWith(items) == [ok |-> TRUE, isArray |-> TRUE, items |-> items]

RequestOutcomes ==
  { [ok |-> FALSE, isArray |-> FALSE, items |-> <<>>],
    [ok |-> TRUE, isArray |-> FALSE, items |-> <<>>],
    fulfilledWith(<<>>),
    fulfilledWith(<<release1, release2>>),
    fulfilledWith(<<release1Again, release1>>),
    fulfilledWith(<<release1Padded>>),
    fulfilledWith(<<release2, release1Again>>),
    fulfilledWith(<<release1Capitalised, release1>>),
    fulfilledWith(<<withoutDownloadUrl, torrentRelease, notAnObject, release1>>) }

\* the promise of a plan whose request has not ended
PendingPlan == [promise |-> "pending", status |-> "", isArray |-> FALSE, data |-> <<>>]

\* mutant of planExecution: the chain has no .catch
planExecution_WithoutCatch(outcome) ==
  IF outcome.ok
    THEN [promise |-> "resolved", status |-> "fulfilled", isArray |-> outcome.isArray,
          data |-> outcome.items]
    ELSE [promise |-> "rejected", status |-> "", isArray |-> FALSE, data |-> <<>>]

\* executeIndexerPlan(plan).then(...).catch(...): resolved either way
planExecution(outcome) ==
  IF outcome.ok
    THEN [promise |-> "resolved", status |-> "fulfilled", isArray |-> outcome.isArray,
          data |-> outcome.items]
    ELSE [promise |-> "resolved", status |-> "rejected", isArray |-> FALSE, data |-> <<>>]

\* mutant of planResultsSettled: the values in the order the requests ended
planResultsSettled_InCompletionOrder(executions, order) ==
  [k \in 1..Len(order) |-> executions[order[k]]]

\* await Promise.all(planExecutions): the values in the order of the array
planResultsSettled(executions, order) == executions

\* the items of planResults that are objects with a downloadUrl and no torrent
filteredResults(planResults) ==
  SelectSeqBy(planResults,
    [i \in 1..Len(planResults) |->
       /\ planResults[i].isObject
       /\ planResults[i].downloadUrl # ""
       /\ ~planResults[i].torrent])

\* resultsByKey after the items of one plan: a Map in insertion order, as a
\* sequence of <<key, result>>
RECURSIVE resultsByKeyWith(_, _)
resultsByKeyWith(map, items) ==
  IF items = <<>> THEN map
  ELSE LET key == deriveResultKey(Head(items))
           has == \E k \in 1..Len(map) : map[k][1] = key
       IN resultsByKeyWith(IF has THEN map ELSE Append(map, <<key, Head(items)>>), Tail(items))

\* the data of a settled plan: nothing for a rejected one or for a non-array
planResultsOf(result) ==
  IF result.status = "rejected" \/ ~result.isArray THEN <<>> ELSE result.data

\* the loop over planResultsSettled without strict matching
RECURSIVE resultsByKeyOf(_, _)
resultsByKeyOf(map, settledResults) ==
  IF settledResults = <<>> THEN map
  ELSE resultsByKeyOf(
         resultsByKeyWith(map, filteredResults(planResultsOf(Head(settledResults)))),
         Tail(settledResults))

\* the loop over planResultsSettled with strict matching
RECURSIVE aggregatedResultsOf(_)
aggregatedResultsOf(settledResults) ==
  IF settledResults = <<>> THEN <<>>
  ELSE filteredResults(planResultsOf(Head(settledResults)))
         \o aggregatedResultsOf(Tail(settledResults))

\* the final filter and map: downloadUrl and indexerId required, tagged 'nzb'
finalNzbResultsOf(deduped) ==
  LET kept == SelectSeqBy(deduped,
                [i \in 1..Len(deduped) |->
                   deduped[i].downloadUrl # "" /\ truthy(deduped[i].indexerId)])
  IN [i \in 1..Len(kept) |-> ("_sourceType" :> "nzb") @@ kept[i]]

\* what searchProwlarr resolves with once every plan has settled
searchProwlarr(executions, order, strict) ==
  LET settledResults == planResultsSettled(executions, order)
      byKey == resultsByKeyOf(<<>>, settledResults)
      dedupedNzbResults ==
        IF strict THEN aggregatedResultsOf(settledResults)
        ELSE [k \in 1..Len(byKey) |-> byKey[k][2]]
  IN finalNzbResultsOf(dedupedNzbResults)

InitSearch ==
  /\ AGE_THRESHOLDS = NoThresholds
  /\ INDEXER_MANAGER_STRICT_ID_MATCH \in BOOLEAN
  /\ pc = "idle"
  /\ results = <<>>
  /\ sortMethod = ""
  /\ preferredLanguage = <<>>
  /\ qualityFilter = ""
  /\ ret = NoReturn
  /\ inputAfter = <<>>
  /\ arg = NoArg
  /\ HandlersIdle

\* what the search handler leaves alone
otherThanSearch ==
  <<AGE_THRESHOLDS, INDEXER_MANAGER_STRICT_ID_MATCH, results, sortMethod, preferredLanguage,
    qualityFilter, inputAfter, arg, req, res>>

\* searchProwlarr up to its await: the plans are built and all dispatched
DispatchPlans ==
  /\ pc = "idle"
  /\ \E n \in 0..MaxPlans : planExecutions' = [i \in 1..n |-> PendingPlan]
  /\ settled' = <<>>
  /\ pc' = "Promise.all"
  /\ UNCHANGED ret
  /\ UNCHANGED otherThanSearch

\* the request of one pending plan ends, in any order among the plans
PlanSettles ==
  /\ pc = "Promise.all"
  /\ \E i \in 1..Len(planExecutions), outcome \in RequestOutcomes :
       /\ planExecutions[i].promise = "pending"
       /\ planExecutions' = [planExecutions EXCEPT ![i] = planExecution(outcome)]
       /\ settled' = Append(settled, i)
  /\ UNCHANGED <<pc, ret>>
  /\ UNCHANGED otherThanSearch

\* Promise.all settles: it rejects with the first rejected promise, or
\* resolves when all have resolved and the rest of searchProwlarr runs
AggregateResults ==
  /\ pc = "Promise.all"
  /\ \/ \E i \in 1..Len(planExecutions) : planExecutions[i].promise = "rejected"
     \/ \A i \in 1..Len(planExecutions) : planExecutions[i].promise = "resolved"
  /\ ret' = IF \E i \in 1..Len(planExecutions) : planExecutions[i].promise = "rejected"
              THEN [rejected |-> TRUE, finalNzbResults |-> <<>>]
              ELSE [rejected |-> FALSE,
                    finalNzbResults |->
                      searchProwlarr(planExecutions, settled, INDEXER_MANAGER_STRICT_ID_MATCH)]
  /\ pc' = "searchProwlarr"
  /\ UNCHANGED <<planExecutions, settled>>
  /\ UNCHANGED otherThanSearch

NextSearch == DispatchPlans \/ PlanSettles \/ AggregateResults \/ NextRequest

SpecSearch == InitSearch /\ [][NextSearch]_vars

\* searchProwlarr has returned
SearchReturned == pc = "searchProwlarr" /\ ~ret.rejected

\* the positions <<plan, index>> of the items that pass the filter of their
\* plan, over the fulfilled plans
occurrences ==
  {<<p, q>> \in (1..Len(planExecutions)) \X (1..4) :
     /\ planExecutions[p].status = "fulfilled" /\ planExecutions[p].isArray
     /\ q <= Len(planExecutions[p].data)
     /\ planExecutions[p].data[q].isObject
     /\ planExecutions[p].data[q].downloadUrl # ""
     /\ ~planExecutions[p].data[q].torrent}

itemAt(o) == planExecutions[o[1]].data[o[2]]

\* a returned result without its tag
untagged(r) == [f \in DOMAIN release1 |-> r[f]]

\* C26: without strict matching no two returned results have the same key
\* indexerId|indexer|title|size, and each returned result is the first
\* occurrence of its key in the earliest plan, in plan order, that has the
\* key, whatever the order in which the requests of the plans ended.
C26_FirstOccurrencePerKey ==
  (SearchReturned /\ ~INDEXER_MANAGER_STRICT_ID_MATCH) =>
    LET out == ret.finalNzbResults IN
      /\ \A i, j \in 1..Len(out) :
           i # j => deriveResultKey(out[i]) # deriveResultKey(out[j])
      /\ \A j \in 1..Len(out) :
           \E o \in occurrences :
             /\ itemAt(o) = untagged(out[j])
             /\ \A o2 \in occurrences :
                  deriveResultKey(itemAt(o2)) = deriveResultKey(out[j])
                    => (o[1] < o2[1] \/ (o[1] = o2[1] /\ o[2] <= o2[2]))

\* C26 witness: the second plan ended first with a result of the key the
\* first plan has too, and the result of the first plan is the one returned
C26_Witness ==
  /\ SearchReturned /\ ~INDEXER_MANAGER_STRICT_ID_MATCH
  /\ settled = <<2, 1>>
  /\ planExecutions[1].data = <<release1Again, release1>>
  /\ planExecutions[2].data = <<release1Padded>>
  /\ Len(ret.finalNzbResults) = 1
  /\ ret.finalNzbResults[1].guid = release1Again.guid

\* the plans with every rejected one replaced by one fulfilled with no result
fulfilledOnly ==
  [i \in 1..Len(planExecutions) |->
     IF planExecutions[i].status = "rejected" THEN planExecution(fulfilledWith(<<>>))
     ELSE planExecutions[i]]

\* C27: a plan whose request rejects contributes no result and never makes
\* searchProwlarr reject: the call resolves with what the fulfilled plans
\* alone give, and every returned result has a downloadUrl and an indexerId
\* and is tagged _sourceType 'nzb'.
C27_RejectedPlanIsEmpty ==
  pc = "searchProwlarr" =>
    /\ ~ret.rejected
    /\ ret.finalNzbResults =
         searchProwlarr(fulfilledOnly, settled, INDEXER_MANAGER_STRICT_ID_MATCH)
    /\ \A j \in 1..Len(ret.finalNzbResults) :
         /\ ret.finalNzbResults[j].downloadUrl # ""
         /\ truthy(ret.finalNzbResults[j].indexerId)
         /\ ret.finalNzbResults[j]._sourceType = "nzb"
         /\ \E o \in occurrences : itemAt(o) = untagged(ret.finalNzbResults[j])
    /\ INDEXER_MANAGER_STRICT_ID_MATCH =>
         Len(ret.finalNzbResults) =
           Cardinality({o \in occurrences : truthy(itemAt(o).indexerId)})

\* C27 witness: the request of the first plan rejected, the second plan was
\* fulfilled, and its results are returned
C27_Witness ==
  /\ pc = "searchProwlarr" /\ ~ret.rejected
  /\ Len(planExecutions) = 2
  /\ planExecutions[1].status = "rejected"
  /\ planExecutions[2].data = <<release1, release2>>
  /\ Len(ret.finalNzbResults) = 2
  /\ ret.finalNzbResults[1].guid = release1.guid

\* ---------------------------------------------------------- handleNzbdavStream
\* req.method as a client may send it, and none
Methods == {<<>>, <<"G","E","T">>, <<"H","E","A","D">>, <<"h","e","a","d">>}

\* the requests: with and without the downloadUrl query parameter
Requests == [method : Methods, downloadUrl : {"", "http://a/1"}]

\* nothing was thrown
NoError == [thrown |-> FALSE, isNzbdavFailure |-> FALSE, responseStatus |-> 0]

\* what the collaborators throw or reject with: a failure of the NZB service
\* or another error, with or without an upstream response status
Errors == [thrown : {TRUE}, isNzbdavFailure : BOOLEAN, responseStatus : {0, 404}]

\* what the handler has called and caught so far, and what the lookup gave
NoCalls == [calls |-> {}, error |-> NoError, streamData |-> "", served |-> FALSE, rejected |-> FALSE]

\* res.status(code).json(body)
json(response, code) ==
  IF response.headersSent THEN [response EXCEPT !.lateWrite = TRUE]
  ELSE [response EXCEPT !.statusCode = code, !.body = "json", !.headersSent = TRUE,
                        !.ended = TRUE]

\* res.end()
end(response) == [response EXCEPT !.headersSent = TRUE, !.ended = TRUE]

\* (req.method || 'GET').toUpperCase() === 'HEAD'
isHead(request) == toUpperCase(request.method) = <<"H","E","A","D">>

\* mutant of errorResponse: the JSON error is written without looking at headersSent
errorResponse_Unconditional(response, code) == json(response, code)

\* if (!res.headersSent) res.status(code).json(...) else res.end()
errorResponse(response, code) ==
  IF ~response.headersSent THEN json(response, code) ELSE end(response)

\* the catch block up to its await or its end: <<pc, res, ret>>
catchBlock(response, done, error) ==
  IF error.isNzbdavFailure
    THEN <<"await streamFailureVideo", response,
           [done EXCEPT !.error = error, !.calls = @ \cup {"streamFailureVideo"}]>>
    ELSE <<"handleNzbdavStream",
           errorResponse(response, IF error.responseStatus # 0 THEN error.responseStatus ELSE 502),
           [done EXCEPT !.error = error]>>

\* the headers of the answer to HEAD that do not depend on the size
HeadHeaders ==
  {"Accept-Ranges", "Content-Type", "Access-Control-Allow-Origin",
   "Access-Control-Expose-Headers", "Content-Disposition"}

\* handleNzbdavStream up to its first await: 400 without downloadUrl, else
\* the cache key is built (which may throw) and the stream is looked up
HandleNzbdavStream ==
  /\ pc = "idle"
  /\ \E request \in Requests, thrown \in {NoError} \cup Errors :
       /\ req' = request
       /\ IF request.downloadUrl = ""
            THEN /\ res' = json(res, 400)
                 /\ ret' = NoCalls
                 /\ pc' = "handleNzbdavStream"
            ELSE IF thrown.thrown
              THEN /\ pc' = catchBlock(res, NoCalls, thrown)[1]
                   /\ res' = catchBlock(res, NoCalls, thrown)[2]
                   /\ ret' = catchBlock(res, NoCalls, thrown)[3]
              ELSE /\ pc' = "await getOrCreateNzbdavStream"
                   /\ ret' = [NoCalls EXCEPT !.calls = {"getOrCreateNzbdavStream"}]
                   /\ res' = res
  /\ UNCHANGED <<AGE_THRESHOLDS, INDEXER_MANAGER_STRICT_ID_MATCH, results, sortMethod,
                 preferredLanguage, qualityFilter, inputAfter, arg, planExecutions, settled>>

\* getOrCreateNzbdavStream settles: it rejects, or it gives stream data whose
\* file name is or is not accepted by setHeader; a HEAD request is answered
\* here, any other goes on to the proxy
StreamLookupSettles ==
  /\ pc = "await getOrCreateNzbdavStream"
  /\ \E error \in {NoError} \cup Errors, fileName \in {"stream.mkv", "invalid in a header"} :
       IF error.thrown
         THEN /\ pc' = catchBlock(res, ret, error)[1]
              /\ res' = catchBlock(res, ret, error)[2]
              /\ ret' = catchBlock(res, ret, error)[3]
         ELSE IF isHead(req)
           THEN IF fileName = "stream.mkv"
                  THEN /\ res' = [res EXCEPT !.headers = HeadHeaders, !.statusCode = 200,
                                             !.headersSent = TRUE, !.ended = TRUE]
                       /\ ret' = [ret EXCEPT !.streamData = fileName]
                       /\ pc' = "handleNzbdavStream"
                  ELSE LET set == [res EXCEPT !.headers =
                                     HeadHeaders \ {"Content-Disposition"}]
                           caught == catchBlock(set, [ret EXCEPT !.streamData = fileName],
                                                [NoError EXCEPT !.thrown = TRUE])
                       IN /\ pc' = caught[1] /\ res' = caught[2] /\ ret' = caught[3]
           ELSE /\ pc' = "await proxyNzbdavStream"
                /\ ret' = [ret EXCEPT !.streamData = fileName,
                                      !.calls = @ \cup {"proxyNzbdavStream"}]
                /\ res' = res
  /\ UNCHANGED <<AGE_THRESHOLDS, INDEXER_MANAGER_STRICT_ID_MATCH, results, sortMethod,
                 preferredLanguage, qualityFilter, inputAfter, arg, planExecutions, settled,
                 req>>

\* proxyNzbdavStream settles: the stream was sent, or it rejects before or
\* after it has sent the headers
ProxySettles ==
  /\ pc = "await proxyNzbdavStream"
  /\ \E error \in {NoError} \cup Errors, sent \in BOOLEAN :
       IF error.thrown
         THEN LET written == [res EXCEPT !.headersSent = sent,
                                         !.statusCode = IF sent THEN 200 ELSE 0]
              IN /\ pc' = catchBlock(written, ret, error)[1]
                 /\ res' = catchBlock(written, ret, error)[2]
                 /\ ret' = catchBlock(written, ret, error)[3]
         ELSE /\ res' = [res EXCEPT !.headersSent = TRUE, !.statusCode = 200,
                                    !.body = "stream", !.ended = TRUE]
              /\ pc' = "handleNzbdavStream"
              /\ ret' = ret
  /\ UNCHANGED <<AGE_THRESHOLDS, INDEXER_MANAGER_STRICT_ID_MATCH, results, sortMethod,
                 preferredLanguage, qualityFilter, inputAfter, arg, planExecutions, settled,
                 req>>

\* streamFailureVideo settles: it has served the failure video, or it has
\* not (with or without headers out), or it rejects and so does the handler
FailureVideoSettles ==
  /\ pc = "await streamFailureVideo"
  /\ \E served \in BOOLEAN, sent \in BOOLEAN, rejects \in BOOLEAN :
       IF rejects
         THEN /\ res' = [res EXCEPT !.headersSent = @ \/ sent]
              /\ ret' = [ret EXCEPT !.rejected = TRUE]
         ELSE IF served
           THEN /\ res' = [res EXCEPT !.headersSent = TRUE, !.body = "video", !.ended = TRUE,
                                      !.statusCode = IF res.headersSent THEN @ ELSE 200]
                /\ ret' = [ret EXCEPT !.served = TRUE]
           ELSE /\ res' = errorResponse([res EXCEPT !.headersSent = @ \/ sent], 502)
                /\ ret' = ret
  /\ pc' = "handleNzbdavStream"
  /\ UNCHANGED <<AGE_THRESHOLDS, INDEXER_MANAGER_STRICT_ID_MATCH, results, sortMethod,
                 preferredLanguage, qualityFilter, inputAfter, arg, planExecutions, settled,
                 req>>

NextStream ==
  \/ HandleNzbdavStream
  \/ StreamLookupSettles
  \/ ProxySettles
  \/ FailureVideoSettles
  \/ NextRequest

SpecStream == InitSearch /\ [][NextStream]_vars

\* the status of the JSON error the catch block writes for an error
errorStatus(error) ==
  IF error.isNzbdavFailure THEN 502
  ELSE IF error.responseStatus # 0 THEN error.responseStatus
  ELSE 502

\* C28: handleNzbdavStream never writes a status or a JSON body once the
\* headers are out. A request without downloadUrl gets 400 before any stream
\* is built or looked up; on a failure the JSON error (the upstream status or
\* 502) is written only while the headers are not out, otherwise the
\* response is only ended; a HEAD request never reaches the proxy and, once
\* its stream is found, is answered with 200 and the headers.
C28_NoWriteAfterHeaders ==
  /\ ~res.lateWrite
  /\ (pc = "handleNzbdavStream" /\ req.downloadUrl = "") =>
       /\ res.statusCode = 400 /\ res.body = "json"
       /\ ret.calls = {}
  /\ (pc = "handleNzbdavStream" /\ ret.error.thrown /\ ~ret.served /\ ~ret.rejected) =>
       /\ res.ended
       /\ res.body \in {"json", ""}
       /\ res.body = "json" => res.statusCode = errorStatus(ret.error)
  /\ (pc \notin {"idle", "Promise.all", "searchProwlarr"} /\ isHead(req)) =>
       /\ "proxyNzbdavStream" \notin ret.calls
       /\ (pc = "handleNzbdavStream" /\ ret.streamData = "stream.mkv") =>
            /\ res.statusCode = 200 /\ res.body = "" /\ res.ended
            /\ HeadHeaders \subseteq res.headers

\* C28 witness: the proxy failed with an upstream 404 after it had sent the
\* headers; no JSON error was written, the response was only ended
C28_Witness ==
  /\ pc = "handleNzbdavStream"
  /\ "proxyNzbdavStream" \in ret.calls
  /\ ret.error.thrown /\ ~ret.error.isNzbdavFailure /\ ret.error.responseStatus = 404
  /\ res.headersSent /\ res.ended
  /\ res.body = "" /\ res.statusCode = 200
  /\ ~res.lateWrite

====
